---- MODULE Spec2Model ----
(***************************************************************************)
(* Status-page platform: the handlers behind the public procedures that    *)
(* write status pages, component groups, components, metrics, incidents,   *)
(* incident updates, subscriptions and maintenance windows, and the public *)
(* read getPublicStatusPage with its overall-status cascade.               *)
(*                                                                         *)
(* Tables are sequences of rows; a row's serial id is its position, since  *)
(* no handler deletes.  Timestamps are ticks of the clock `now`; a null    *)
(* column is NULL.  Columns that no handler reads back (name, description, *)
(* sort_order, started_at, created_at) are left out of the rows.           *)
(*                                                                         *)
(* A handler is an async function: every await is a round trip to the      *)
(* store, and calls in progress at the same time take their round trips in *)
(* any order.  A call is a record of `calls`; the store applying the query *)
(* of an await is one step, named after the handler and the variable that  *)
(* receives the result.  The handler goes on with the answer later: where  *)
(* the code after an await reads the clock, that read is a step of its     *)
(* own, named after the column or variable that receives new Date(), and   *)
(* the clock and the other calls can move between the two.  Two reads of   *)
(* the clock for one query are two steps as well.  Code after an await     *)
(* that reads nothing outside the call is taken with the store's step.     *)
(* The time read for updated_at, timestamp or now is carried in the call's *)
(* stamp, the time read for resolved_at in the call's resolved_at.         *)
(*                                                                         *)
(* The router takes requests as they come, so calls overlap in every way;  *)
(* a call's `serial` records that no call so far, this one included, was   *)
(* made while another was in progress.                                     *)
(*                                                                         *)
(* A finished call keeps what it was given and what it gave back: op,     *)
(* input, pc ("returned", or "threw") and out (the returned value, or the  *)
(* message of the error thrown), until the next call is made in its place; *)
(* what it held while it ran is gone.                                      *)
(***************************************************************************)
EXTENDS Integers, Sequences, FiniteSets, TLC

VARIABLES now, organizations, statusPages, componentGroups, components,
          metrics, incidents, incidentComponents, incidentUpdates,
          subscriptions, maintenanceWindows, maintenanceComponents,
          calls, lastWriter

vars == <<now, organizations, statusPages, componentGroups, components,
          metrics, incidents, incidentComponents, incidentUpdates,
          subscriptions, maintenanceWindows, maintenanceComponents,
          calls, lastWriter>>

(* Every table. *)
db == <<organizations, statusPages, componentGroups, components, metrics,
        incidents, incidentComponents, incidentUpdates, subscriptions,
        maintenanceWindows, maintenanceComponents>>

(* Every table but the one a step writes. *)
butStatusPages ==
  <<organizations, componentGroups, components, metrics, incidents,
    incidentComponents, incidentUpdates, subscriptions, maintenanceWindows,
    maintenanceComponents>>

butComponentGroups ==
  <<organizations, statusPages, components, metrics, incidents,
    incidentComponents, incidentUpdates, subscriptions, maintenanceWindows,
    maintenanceComponents>>

butComponents ==
  <<organizations, statusPages, componentGroups, metrics, incidents,
    incidentComponents, incidentUpdates, subscriptions, maintenanceWindows,
    maintenanceComponents>>

butMetrics ==
  <<organizations, statusPages, componentGroups, components, incidents,
    incidentComponents, incidentUpdates, subscriptions, maintenanceWindows,
    maintenanceComponents>>

butIncidents ==
  <<organizations, statusPages, componentGroups, components, metrics,
    incidentComponents, incidentUpdates, subscriptions, maintenanceWindows,
    maintenanceComponents>>

butIncidentComponents ==
  <<organizations, statusPages, componentGroups, components, metrics,
    incidents, incidentUpdates, subscriptions, maintenanceWindows,
    maintenanceComponents>>

butIncidentUpdates ==
  <<organizations, statusPages, componentGroups, components, metrics,
    incidents, incidentComponents, subscriptions, maintenanceWindows,
    maintenanceComponents>>

butSubscriptions ==
  <<organizations, statusPages, componentGroups, components, metrics,
    incidents, incidentComponents, incidentUpdates, maintenanceWindows,
    maintenanceComponents>>

butMaintenanceWindows ==
  <<organizations, statusPages, componentGroups, components, metrics,
    incidents, incidentComponents, incidentUpdates, subscriptions,
    maintenanceComponents>>

butMaintenanceComponents ==
  <<organizations, statusPages, componentGroups, components, metrics,
    incidents, incidentComponents, incidentUpdates, subscriptions,
    maintenanceWindows>>

----------------------------------------------------------------------------
(* Bounds of the model *)

MaxPages == 3
MaxGroups == 1
MaxComponents == 3
MaxIncidents == 2
MaxUpdates == 2
MaxMetrics == 2
MaxTime == 1
MaxIds == 2
MaxCalls == 2
MaxSubscriptions == 3
MaxWindows == 2
MaxDate == 2

----------------------------------------------------------------------------
(* Enumerations of schema.ts *)

NULL == -1

componentStatusEnum ==
  {"operational", "degraded_performance", "partial_outage", "major_outage",
   "under_maintenance"}

incidentStatusEnum == {"investigating", "identified", "monitoring", "resolved"}

incidentImpactEnum == {"none", "minor", "major", "critical"}

(* An optional field of an input that the caller left out. *)
undefined == "undefined"

----------------------------------------------------------------------------
(* Helpers over row lists; where() and filter() are SelectSeq. *)

Range(s) == {s[i] : i \in 1..Len(s)}

(* All sequences over S of length 0..n. *)
SeqsUpTo(S, n) == UNION {[1..k -> S] : k \in 0..n}

(* ids.join(', ') in a template string *)
RECURSIVE join(_)
join(ids) ==
  IF Len(ids) = 0 THEN ""
  ELSE IF Len(ids) = 1 THEN ToString(ids[1])
  ELSE ToString(ids[1]) \o ", " \o join(Tail(ids))

(* components.some(c => c.status === status) *)
hasStatus(comps, status) == \E i \in 1..Len(comps) : comps[i].status = status

----------------------------------------------------------------------------
(* The rows every test fixture inserts before calling a handler: two       *)
(* active organizations, each with one public status page.                 *)

FixtureOrganizations ==
  << [id |-> 1, slug |-> "acme", is_active |-> TRUE],
     [id |-> 2, slug |-> "beta", is_active |-> TRUE] >>

FixtureStatusPages ==
  << [id |-> 1, organization_id |-> 1, is_public |-> TRUE],
     [id |-> 2, organization_id |-> 2, is_public |-> TRUE] >>

CallIds == 1..MaxCalls

(* A call not made yet.  stamp and resolved_at are the new Date() values   *)
(* read for the query under way, held what the call keeps of the results   *)
(* of its earlier awaits, k the position in component_ids of the next      *)
(* status write.                                                           *)
idleCall ==
  [op |-> "none", pc |-> "idle", input |-> << >>, stamp |-> NULL,
   resolved_at |-> NULL, held |-> << >>, k |-> 1, out |-> << >>,
   serial |-> TRUE]

Init ==
  /\ now = 0
  /\ organizations = FixtureOrganizations
  /\ statusPages = FixtureStatusPages
  /\ componentGroups = << >>
  /\ components = << >>
  /\ metrics = << >>
  /\ incidents = << >>
  /\ incidentComponents = << >>
  /\ incidentUpdates = << >>
  /\ subscriptions = << >>
  /\ maintenanceWindows = << >>
  /\ maintenanceComponents = << >>
  /\ calls = [p \in CallIds |-> idleCall]
  /\ lastWriter = [c \in 1..MaxComponents |-> 0]

(* The wall clock (new Date(), defaultNow()) moves on between and during   *)
(* calls.                                                                  *)
Tick ==
  /\ now < MaxTime
  /\ now' = now + 1
  /\ UNCHANGED <<db, calls, lastWriter>>

----------------------------------------------------------------------------
(* The life of a call *)

(* A call can be made in a slot that holds no call in progress. *)
Free(p) == calls[p].pc \in {"idle", "returned", "threw"}

(* No other call is in progress when a call is made in slot p. *)
Alone(p) == \A q \in CallIds \ {p} : Free(q)

(* The calls so far were made one after another. *)
Serial == \A q \in CallIds : calls[q].serial

(* The call is made and stands before the await named pc. *)
Begin(p, op, input, pc, stamp, held) ==
  calls' = [calls EXCEPT ![p] = [op |-> op, pc |-> pc, input |-> input,
                                 stamp |-> stamp, resolved_at |-> NULL,
                                 held |-> held, k |-> 1, out |-> << >>,
                                 serial |-> Serial /\ Alone(p)]]

(* The call goes on to the await named pc. *)
Goto(p, pc, stamp, held) ==
  calls' = [calls EXCEPT ![p].pc = pc, ![p].stamp = stamp, ![p].held = held]

(* return out *)
Return(p, out) ==
  calls' = [calls EXCEPT ![p].pc = "returned", ![p].stamp = NULL,
                         ![p].resolved_at = NULL, ![p].held = << >>,
                         ![p].k = 1, ![p].out = out]

(* throw new Error(message): the catch block logs and rethrows it. *)
Throw(p, message) ==
  calls' = [calls EXCEPT ![p].pc = "threw", ![p].stamp = NULL,
                         ![p].resolved_at = NULL, ![p].held = << >>,
                         ![p].k = 1, ![p].out = message]

(* The same at the first await of a call. *)
Reject(p, op, input, message) ==
  calls' = [calls EXCEPT ![p] = [idleCall EXCEPT !.op = op,
                                                 !.pc = "threw",
                                                 !.input = input,
                                                 !.out = message,
                                                 !.serial = Serial /\ Alone(p)]]

----------------------------------------------------------------------------
(* select().from(statusPagesTable).where(eq(id, ...)) *)

StatusPageRows(status_page_id) ==
  SelectSeq(statusPages, LAMBDA p : p.id = status_page_id)

(* select().from(componentsTable).where(eq(id, ...)) *)
ComponentRows(component_id) ==
  SelectSeq(components, LAMBDA c : c.id = component_id)

----------------------------------------------------------------------------
(* createStatusPage *)

(* lines 8-21 *)
createStatusPage_organizations(p, input) ==
  /\ Free(p)
  /\ UNCHANGED <<now, db, lastWriter>>
  /\ LET rows == SelectSeq(organizations,
                           LAMBDA o : o.id = input.organization_id)
     IN IF Len(rows) = 0
          THEN Reject(p, "createStatusPage", input,
                      "Organization with ID "
                        \o ToString(input.organization_id) \o " not found")
        ELSE IF ~rows[1].is_active
          THEN Reject(p, "createStatusPage", input,
                      "Organization with ID "
                        \o ToString(input.organization_id)
                        \o " is not active")
        ELSE /\ Begin(p, "createStatusPage", input, "result", NULL, << >>)

(* lines 23-35 *)
createStatusPage_result(p) ==
  /\ calls[p].op = "createStatusPage" /\ calls[p].pc = "result"
  /\ Len(statusPages) < MaxPages
  /\ UNCHANGED <<now, butStatusPages, lastWriter>>
  /\ LET row == [id |-> Len(statusPages) + 1,
                 organization_id |-> calls[p].input.organization_id,
                 is_public |-> calls[p].input.is_public]
     IN /\ statusPages' = Append(statusPages, row)
        /\ Return(p, row)

----------------------------------------------------------------------------
(* createComponentGroup *)

(* lines 8-17 *)
createComponentGroup_statusPage(p, input) ==
  /\ Free(p)
  /\ UNCHANGED <<now, db, lastWriter>>
  /\ IF Len(StatusPageRows(input.status_page_id)) = 0
       THEN Reject(p, "createComponentGroup", input,
                   "Status page with id " \o ToString(input.status_page_id)
                     \o " not found")
       ELSE /\ Begin(p, "createComponentGroup", input, "result", NULL, << >>)

(* lines 19-31 *)
createComponentGroup_result(p) ==
  /\ calls[p].op = "createComponentGroup" /\ calls[p].pc = "result"
  /\ Len(componentGroups) < MaxGroups
  /\ UNCHANGED <<now, butComponentGroups, lastWriter>>
  /\ LET row == [id |-> Len(componentGroups) + 1,
                 status_page_id |-> calls[p].input.status_page_id]
     IN /\ componentGroups' = Append(componentGroups, row)
        /\ Return(p, row)

----------------------------------------------------------------------------
(* createComponent *)

(* if (input.component_group_id): null, undefined and 0 are skipped *)
givenGroup(input) ==
  input.component_group_id \notin {NULL, 0}

(* lines 8-19 *)
createComponent_statusPageExists(p, input) ==
  /\ Free(p)
  /\ UNCHANGED <<now, db, lastWriter>>
  /\ IF Len(StatusPageRows(input.status_page_id)) = 0
       THEN Reject(p, "createComponent", input,
                   "Status page with id " \o ToString(input.status_page_id)
                     \o " not found")
       ELSE /\ Begin(p, "createComponent", input,
                     IF givenGroup(input) THEN "componentGroupExists"
                                          ELSE "result",
                     NULL, << >>)

(* lines 20-33 *)
createComponent_componentGroupExists(p) ==
  /\ calls[p].op = "createComponent" /\ calls[p].pc = "componentGroupExists"
  /\ UNCHANGED <<now, db, lastWriter>>
  /\ LET input == calls[p].input
         componentGroupExists ==
           SelectSeq(componentGroups,
                     LAMBDA g : g.id = input.component_group_id)
     IN IF Len(componentGroupExists) = 0
          THEN Throw(p, "Component group with id "
                          \o ToString(input.component_group_id)
                          \o " not found")
        ELSE IF componentGroupExists[1].status_page_id # input.status_page_id
          THEN Throw(p, "Component group "
                          \o ToString(input.component_group_id)
                          \o " does not belong to status page "
                          \o ToString(input.status_page_id))
        ELSE /\ Goto(p, "result", NULL, << >>)

(* lines 36-49: updated_at is the store's defaultNow() *)
createComponent_result(p) ==
  /\ calls[p].op = "createComponent" /\ calls[p].pc = "result"
  /\ Len(components) < MaxComponents
  /\ UNCHANGED <<now, butComponents, lastWriter>>
  /\ LET input == calls[p].input
         row == [id |-> Len(components) + 1,
                 status_page_id |-> input.status_page_id,
                 component_group_id |->
                   IF givenGroup(input) THEN input.component_group_id
                                        ELSE NULL,
                 status |-> input.status,
                 is_visible |-> input.is_visible,
                 updated_at |-> now]
     IN /\ components' = Append(components, row)
        /\ Return(p, row)

----------------------------------------------------------------------------
(* updateComponentStatus *)

(* lines 44-47: the update of one component row *)
setComponentStatus(rows, component_id, status, updated_at) ==
  [i \in 1..Len(rows) |->
     IF rows[i].id = component_id
       THEN [rows[i] EXCEPT !.status = status, !.updated_at = updated_at]
       ELSE rows[i]]

(* lines 53-60: the metric row of the status change *)
MutInsertMetricOnChange(rows, input, timestamp) ==
  IF \E i \in 1..Len(rows) :
       /\ rows[i].component_id = input.component_id
       /\ rows[i].status = input.status
    THEN rows
    ELSE Append(rows, [id |-> Len(rows) + 1,
                       component_id |-> input.component_id,
                       timestamp |-> timestamp,
                       status |-> input.status,
                       response_time |-> NULL])

insertMetric(rows, input, timestamp) ==
  Append(rows, [id |-> Len(rows) + 1,
                component_id |-> input.component_id,
                timestamp |-> timestamp,
                status |-> input.status,
                response_time |-> NULL])

(* lines 30-38: the call is made and the component looked up *)
updateComponentStatus_existingComponents(p, input) ==
  /\ Free(p)
  /\ UNCHANGED <<now, db, lastWriter>>
  /\ IF Len(ComponentRows(input.component_id)) = 0
       THEN Reject(p, "updateComponentStatus", input,
                   "Component with id " \o ToString(input.component_id)
                     \o " not found")
       ELSE /\ Begin(p, "updateComponentStatus", input, "updated_at",
                     NULL, << >>)

(* line 44: the handler goes on and reads updated_at for the update *)
updateComponentStatus_updated_at(p) ==
  /\ calls[p].op = "updateComponentStatus" /\ calls[p].pc = "updated_at"
  /\ UNCHANGED <<now, db, lastWriter>>
  /\ Goto(p, "updatedComponents", now, calls[p].held)

(* lines 41-50: the update is applied and returns the row *)
updateComponentStatus_updatedComponents(p) ==
  /\ calls[p].op = "updateComponentStatus"
  /\ calls[p].pc = "updatedComponents"
  /\ UNCHANGED <<now, butComponents>>
  /\ LET input == calls[p].input
     IN /\ components' = setComponentStatus(components, input.component_id,
                                            input.status, calls[p].stamp)
        /\ lastWriter' = [lastWriter EXCEPT ![input.component_id] = 0]
        /\ Goto(p, "timestamp", NULL,
                [updatedComponent |-> components'[input.component_id]])

(* line 56: the handler goes on and reads timestamp for the insert *)
updateComponentStatus_timestamp(p) ==
  /\ calls[p].op = "updateComponentStatus" /\ calls[p].pc = "timestamp"
  /\ UNCHANGED <<now, db, lastWriter>>
  /\ Goto(p, "insertMetric", now, calls[p].held)

(* lines 53-62 *)
updateComponentStatus_insertMetric(p) ==
  /\ calls[p].op = "updateComponentStatus" /\ calls[p].pc = "insertMetric"
  /\ Len(metrics) < MaxMetrics
  /\ UNCHANGED <<now, butMetrics, lastWriter>>
  /\ metrics' = insertMetric(metrics, calls[p].input, calls[p].stamp)
  /\ Return(p, calls[p].held.updatedComponent)

----------------------------------------------------------------------------
(* createMetric *)

(* lines 8-16 *)
createMetric_component(p, input) ==
  /\ Free(p)
  /\ UNCHANGED <<now, db, lastWriter>>
  /\ IF Len(ComponentRows(input.component_id)) = 0
       THEN Reject(p, "createMetric", input,
                   "Component with id " \o ToString(input.component_id)
                     \o " not found")
       ELSE /\ Begin(p, "createMetric", input, "result", NULL, << >>)

(* lines 18-30: response_time || null turns 0 into null as well *)
createMetric_result(p) ==
  /\ calls[p].op = "createMetric" /\ calls[p].pc = "result"
  /\ Len(metrics) < MaxMetrics
  /\ UNCHANGED <<now, butMetrics, lastWriter>>
  /\ LET input == calls[p].input
         metric == [id |-> Len(metrics) + 1,
                    component_id |-> input.component_id,
                    timestamp |-> input.timestamp,
                    status |-> input.status,
                    response_time |->
                      IF input.response_time \in {NULL, 0}
                        THEN NULL ELSE input.response_time]
     IN /\ metrics' = Append(metrics, metric)
        /\ Return(p, metric)

----------------------------------------------------------------------------
(* createSubscription *)

(* lines 43-49: the subscriptions of this email on this status page *)
MutExistingByEmail(input) ==
  SelectSeq(subscriptions, LAMBDA r : r.email = input.email)

MutExistingNever(input) ==
  SelectSeq(subscriptions, LAMBDA r : FALSE)

existingSubscription(input) ==
  SelectSeq(subscriptions,
            LAMBDA r : /\ r.email = input.email
                       /\ r.status_page_id = input.status_page_id)

(* lines 29-40 *)
createSubscription_statusPage(p, input) ==
  /\ Free(p)
  /\ UNCHANGED <<now, db, lastWriter>>
  /\ LET statusPage == StatusPageRows(input.status_page_id)
     IN IF Len(statusPage) = 0
          THEN Reject(p, "createSubscription", input, "Status page not found")
        ELSE IF ~statusPage[1].is_public
          THEN Reject(p, "createSubscription", input,
                      "Status page does not allow public subscriptions")
        ELSE /\ Begin(p, "createSubscription", input, "existingSubscription",
                      NULL, << >>)

(* lines 43-53 *)
createSubscription_existingSubscription(p) ==
  /\ calls[p].op = "createSubscription"
  /\ calls[p].pc = "existingSubscription"
  /\ UNCHANGED <<now, db, lastWriter>>
  /\ IF Len(existingSubscription(calls[p].input)) > 0
       THEN Throw(p,
              "Subscription already exists for this email and status page")
       ELSE /\ Goto(p, "result", NULL, << >>)

(* lines 56-68 *)
createSubscription_result(p) ==
  /\ calls[p].op = "createSubscription" /\ calls[p].pc = "result"
  /\ Len(subscriptions) < MaxSubscriptions
  /\ UNCHANGED <<now, butSubscriptions, lastWriter>>
  /\ LET input == calls[p].input
         row == [id |-> Len(subscriptions) + 1,
                 status_page_id |-> input.status_page_id,
                 email |-> input.email,
                 subscribed_to_incidents |-> input.subscribed_to_incidents,
                 subscribed_to_maintenance |-> input.subscribed_to_maintenance,
                 is_active |-> TRUE,
                 user_id |-> NULL]
     IN /\ subscriptions' = Append(subscriptions, row)
        /\ Return(p, row)

----------------------------------------------------------------------------
(* createMaintenanceWindow: an omitted component_ids is the empty list,   *)
(* both skip line 38.                                                      *)

(* line 9 *)
MutInvalidScheduleOnlyBefore(input) ==
  input.scheduled_end < input.scheduled_start

invalidSchedule(input) ==
  input.scheduled_end <= input.scheduled_start

(* lines 8-21: the schedule is checked before the first await *)
createMaintenanceWindow_statusPage(p, input) ==
  /\ Free(p)
  /\ UNCHANGED <<now, db, lastWriter>>
  /\ IF invalidSchedule(input)
       THEN Reject(p, "createMaintenanceWindow", input,
                   "Scheduled end time must be after scheduled start time")
     ELSE IF Len(StatusPageRows(input.status_page_id)) = 0
       THEN Reject(p, "createMaintenanceWindow", input,
                   "Status page not found")
     ELSE /\ Begin(p, "createMaintenanceWindow", input, "result", NULL, << >>)

(* lines 24-38, and line 49 when there is nothing to link *)
createMaintenanceWindow_result(p) ==
  /\ calls[p].op = "createMaintenanceWindow" /\ calls[p].pc = "result"
  /\ Len(maintenanceWindows) < MaxWindows
  /\ UNCHANGED <<now, butMaintenanceWindows, lastWriter>>
  /\ LET input == calls[p].input
         maintenanceWindow ==
           [id |-> Len(maintenanceWindows) + 1,
            status_page_id |-> input.status_page_id,
            status |-> "scheduled",
            scheduled_start |-> input.scheduled_start,
            scheduled_end |-> input.scheduled_end]
     IN /\ maintenanceWindows' = Append(maintenanceWindows, maintenanceWindow)
        /\ IF Len(input.component_ids) > 0
             THEN /\ Goto(p, "componentLinks", NULL,
                          [maintenanceWindow |-> maintenanceWindow])
             ELSE Return(p, maintenanceWindow)

(* lines 39-49: one insert of all the links; the store rejects it when a  *)
(* component_id is no row of components (the column references             *)
(* components.id), and the window inserted before stays.                   *)
createMaintenanceWindow_componentLinks(p) ==
  /\ calls[p].op = "createMaintenanceWindow" /\ calls[p].pc = "componentLinks"
  /\ UNCHANGED <<now, butMaintenanceComponents, lastWriter>>
  /\ LET input == calls[p].input
         maintenanceWindow == calls[p].held.maintenanceWindow
     IN IF \A k \in 1..Len(input.component_ids) :
             Len(ComponentRows(input.component_ids[k])) > 0
          THEN /\ maintenanceComponents' = maintenanceComponents \o
                    [k \in 1..Len(input.component_ids) |->
                       [maintenance_window_id |-> maintenanceWindow.id,
                        component_id |-> input.component_ids[k]]]
               /\ Return(p, maintenanceWindow)
          ELSE /\ UNCHANGED maintenanceComponents
               /\ Throw(p, "Failed query")

----------------------------------------------------------------------------
(* getPublicStatusPage *)

(* The cascade of lines 114-132 over the fetched component rows, and four  *)
(* ways to get it wrong.  under_maintenance tested first:                  *)
MutOverallMaintenanceFirst(comps) ==
  IF Len(comps) > 0
    THEN IF hasStatus(comps, "under_maintenance")
           THEN "under_maintenance"
         ELSE IF hasStatus(comps, "major_outage")
           THEN "major_outage"
         ELSE IF hasStatus(comps, "partial_outage")
           THEN "partial_outage"
         ELSE IF hasStatus(comps, "degraded_performance")
           THEN "degraded_performance"
         ELSE "operational"
    ELSE "operational"

(* degraded_performance tested before partial_outage *)
MutOverallDegradedFirst(comps) ==
  IF Len(comps) > 0
    THEN IF hasStatus(comps, "major_outage")
           THEN "major_outage"
         ELSE IF hasStatus(comps, "degraded_performance")
           THEN "degraded_performance"
         ELSE IF hasStatus(comps, "partial_outage")
           THEN "partial_outage"
         ELSE IF hasStatus(comps, "under_maintenance")
           THEN "under_maintenance"
         ELSE "operational"
    ELSE "operational"

(* under_maintenance tested before degraded_performance *)
MutOverallMaintenanceOverDegraded(comps) ==
  IF Len(comps) > 0
    THEN IF hasStatus(comps, "major_outage")
           THEN "major_outage"
         ELSE IF hasStatus(comps, "partial_outage")
           THEN "partial_outage"
         ELSE IF hasStatus(comps, "under_maintenance")
           THEN "under_maintenance"
         ELSE IF hasStatus(comps, "degraded_performance")
           THEN "degraded_performance"
         ELSE "operational"
    ELSE "operational"

(* every() in place of some(), and no length guard: true of the empty list *)
MutOverallEvery(comps) ==
  IF \A i \in 1..Len(comps) : comps[i].status = "major_outage"
    THEN "major_outage"
  ELSE IF \A i \in 1..Len(comps) : comps[i].status = "partial_outage"
    THEN "partial_outage"
  ELSE IF \A i \in 1..Len(comps) : comps[i].status = "degraded_performance"
    THEN "degraded_performance"
  ELSE IF \A i \in 1..Len(comps) : comps[i].status = "under_maintenance"
    THEN "under_maintenance"
  ELSE "operational"

(* the status of the first component that is not operational *)
MutOverallFirstNotOperational(comps) ==
  LET rest == SelectSeq(comps, LAMBDA c : c.status # "operational")
  IN IF Len(rest) > 0 THEN rest[1].status ELSE "operational"

overallStatus(comps) ==
  IF Len(comps) > 0
    THEN LET hasOutage == hasStatus(comps, "major_outage")
             hasPartialOutage == hasStatus(comps, "partial_outage")
             hasDegraded == hasStatus(comps, "degraded_performance")
             hasMaintenance == hasStatus(comps, "under_maintenance")
         IN IF hasOutage THEN "major_outage"
            ELSE IF hasPartialOutage THEN "partial_outage"
            ELSE IF hasDegraded THEN "degraded_performance"
            ELSE IF hasMaintenance THEN "under_maintenance"
            ELSE "operational"
    ELSE "operational"

(* organizations inner join status pages, filtered by slug, is_public and  *)
(* is_active (lines 45-58); the rows come out as status pages.             *)
organizationResults(slug) ==
  SelectSeq(statusPages,
         LAMBDA p : /\ p.is_public
                    /\ \E i \in 1..Len(organizations) :
                         /\ organizations[i].id = p.organization_id
                         /\ organizations[i].slug = slug
                         /\ organizations[i].is_active)

(* lines 73-81: the visible components of one status page *)
MutFetchComponentsStale(status_page_id) ==
  LET firstMetric(c) ==
        SelectSeq(metrics, LAMBDA m : m.component_id = c.id)
      rows == SelectSeq(components,
                LAMBDA c : c.status_page_id = status_page_id /\ c.is_visible)
  IN [i \in 1..Len(rows) |->
        IF firstMetric(rows[i]) # << >>
          THEN [rows[i] EXCEPT !.status = firstMetric(rows[i])[1].status]
          ELSE rows[i]]

MutFetchComponentsOfAnyPage(status_page_id) ==
  SelectSeq(components, LAMBDA c : c.is_visible)

fetchComponents(status_page_id) ==
  SelectSeq(components,
         LAMBDA c : c.status_page_id = status_page_id /\ c.is_visible)


(* lines 67-70: the component groups of one status page *)
fetchComponentGroups(status_page_id) ==
  SelectSeq(componentGroups, LAMBDA g : g.status_page_id = status_page_id)

(* lines 92-95: the incidents of the page *)
fetchIncidents(status_page_id) ==
  SelectSeq(incidents, LAMBDA i : i.status_page_id = status_page_id)

(* lines 98-100: the ones that are not resolved, filtered in memory *)
filteredActiveIncidents(activeIncidents) ==
  SelectSeq(activeIncidents, LAMBDA i : i.status # "resolved")

(* lines 104-112: the windows of the page that start at or after the time *)
(* read at line 103                                                        *)
fetchUpcomingMaintenance(status_page_id, date) ==
  SelectSeq(maintenanceWindows,
            LAMBDA w : /\ w.status_page_id = status_page_id
                       /\ w.scheduled_start >= date)

(* lines 45-64: null when no active organization with a public page has   *)
(* the slug                                                                *)
getPublicStatusPage_organizationResults(p, slug) ==
  /\ Free(p)
  /\ UNCHANGED <<now, db, lastWriter>>
  /\ IF Len(organizationResults(slug)) = 0
       THEN calls' = [calls EXCEPT
                       ![p] = [idleCall EXCEPT
                                 !.op = "getPublicStatusPage",
                                 !.pc = "returned",
                                 !.input = [slug |-> slug],
                                 !.out = [null |-> TRUE],
                                 !.serial = Serial /\ Alone(p)]]
       ELSE Begin(p, "getPublicStatusPage", [slug |-> slug],
                     "componentGroups", NULL,
                     [statusPage |-> organizationResults(slug)[1]])

(* lines 67-70 *)
getPublicStatusPage_componentGroups(p) ==
  /\ calls[p].op = "getPublicStatusPage" /\ calls[p].pc = "componentGroups"
  /\ UNCHANGED <<now, db, lastWriter>>
  /\ LET statusPage == calls[p].held.statusPage
     IN Goto(p, "components", NULL,
             [statusPage |-> statusPage,
              componentGroups |-> fetchComponentGroups(statusPage.id)])

(* lines 73-81 *)
getPublicStatusPage_components(p) ==
  /\ calls[p].op = "getPublicStatusPage" /\ calls[p].pc = "components"
  /\ UNCHANGED <<now, db, lastWriter>>
  /\ LET held == calls[p].held
     IN Goto(p, "activeIncidents", NULL,
             [statusPage |-> held.statusPage,
              componentGroups |-> held.componentGroups,
              components |-> fetchComponents(held.statusPage.id)])

(* lines 92-100: the incidents are read and filtered *)
getPublicStatusPage_activeIncidents(p) ==
  /\ calls[p].op = "getPublicStatusPage" /\ calls[p].pc = "activeIncidents"
  /\ UNCHANGED <<now, db, lastWriter>>
  /\ LET held == calls[p].held
     IN Goto(p, "now", NULL,
             [statusPage |-> held.statusPage,
              componentGroups |-> held.componentGroups,
              components |-> held.components,
              filteredActiveIncidents |->
                filteredActiveIncidents(fetchIncidents(held.statusPage.id))])

(* line 103: const now = new Date(), read when the handler goes on *)
getPublicStatusPage_now(p) ==
  /\ calls[p].op = "getPublicStatusPage" /\ calls[p].pc = "now"
  /\ UNCHANGED <<now, db, lastWriter>>
  /\ Goto(p, "upcomingMaintenance", now, calls[p].held)

(* lines 104-141: the last read, the cascade and the response *)
getPublicStatusPage_upcomingMaintenance(p) ==
  /\ calls[p].op = "getPublicStatusPage"
  /\ calls[p].pc = "upcomingMaintenance"
  /\ UNCHANGED <<now, db, lastWriter>>
  /\ LET held == calls[p].held
     IN Return(p,
               [null |-> FALSE,
                status_page |-> held.statusPage,
                overall_status |-> overallStatus(held.components),
                component_groups |-> held.componentGroups,
                components |-> held.components,
                active_incidents |-> held.filteredActiveIncidents,
                upcoming_maintenance |->
                  fetchUpcomingMaintenance(held.statusPage.id,
                                           calls[p].stamp)])

----------------------------------------------------------------------------
(* createIncident *)

(* lines 66-78: the component status an impact maps to *)
MutImpactShifted(impact) ==
  CASE impact = "critical" -> "major_outage"
    [] impact = "major" -> "major_outage"
    [] impact = "minor" -> "partial_outage"
    [] OTHER -> "operational"

newComponentStatus(impact) ==
  CASE impact = "critical" -> "major_outage"
    [] impact = "major" -> "partial_outage"
    [] impact = "minor" -> "degraded_performance"
    [] OTHER -> "operational"

(* Position of a status on the severity scale the comment of line 80      *)
(* speaks of; used only by the mutants below.                              *)
Severity(status) ==
  CASE status = "operational" -> 0
    [] status = "under_maintenance" -> 1
    [] status = "degraded_performance" -> 2
    [] status = "partial_outage" -> 3
    [] status = "major_outage" -> 4

(* lines 83-89: one update of the component row with the given id *)
MutWriteOnlyIfMoreSevere(rows, componentId, status, updated_at) ==
  [i \in 1..Len(rows) |->
     IF rows[i].id = componentId /\ Severity(status) > Severity(rows[i].status)
       THEN [rows[i] EXCEPT !.status = status, !.updated_at = updated_at]
       ELSE rows[i]]

MutWriteEscalates(rows, componentId, status, updated_at) ==
  [i \in 1..Len(rows) |->
     IF rows[i].id = componentId
       THEN [rows[i] EXCEPT
               !.status = IF rows[i].status = status THEN "major_outage"
                          ELSE status,
               !.updated_at = updated_at]
       ELSE rows[i]]

MutWriteFirstWins(rows, componentId, status, updated_at) ==
  [i \in 1..Len(rows) |->
     IF rows[i].id = componentId /\ rows[i].status = "operational"
       THEN [rows[i] EXCEPT !.status = status, !.updated_at = updated_at]
       ELSE rows[i]]

writeComponentStatus(rows, componentId, status, updated_at) ==
  [i \in 1..Len(rows) |->
     IF rows[i].id = componentId
       THEN [rows[i] EXCEPT !.status = status, !.updated_at = updated_at]
       ELSE rows[i]]


(* lines 80-81: no write at all when the target is operational *)
MutPropagatesAlways(input) ==
  TRUE

propagates(input) ==
  newComponentStatus(input.impact) # "operational"

(* lines 20-30: the ids of the input that are no component of the page *)
MutInvalidIgnoresPage(input) ==
  LET validComponentIds == {c.id : c \in Range(components)}
  IN SelectSeq(input.component_ids, LAMBDA id : id \notin validComponentIds)

invalidComponents(input) ==
  LET validComponentIds ==
        {c.id : c \in Range(SelectSeq(components,
                  LAMBDA c : c.status_page_id = input.status_page_id))}
  IN SelectSeq(input.component_ids, LAMBDA id : id \notin validComponentIds)

(* lines 54-57 *)
MutComponentLinksFirstOnly(incident_id, component_ids) ==
  [k \in 1..(IF Len(component_ids) > 0 THEN 1 ELSE 0) |->
     [incident_id |-> incident_id, component_id |-> component_ids[k]]]

componentLinks(incident_id, component_ids) ==
  [k \in 1..Len(component_ids) |->
     [incident_id |-> incident_id, component_id |-> component_ids[k]]]


(* An omitted component_ids is the empty list: both skip lines 19 and 53. *)

(* lines 8-19 *)
createIncident_statusPage(p, input) ==
  /\ Free(p)
  /\ UNCHANGED <<now, db, lastWriter>>
  /\ IF Len(StatusPageRows(input.status_page_id)) = 0
       THEN Reject(p, "createIncident", input,
                   "Status page with id " \o ToString(input.status_page_id)
                     \o " not found")
       ELSE /\ Begin(p, "createIncident", input,
                     IF Len(input.component_ids) > 0
                       THEN "components" ELSE "incidentResult",
                     NULL, << >>)

(* lines 20-35 *)
createIncident_components(p) ==
  /\ calls[p].op = "createIncident" /\ calls[p].pc = "components"
  /\ UNCHANGED <<now, db, lastWriter>>
  /\ IF Len(invalidComponents(calls[p].input)) > 0
       THEN Throw(p, "Components with ids "
                       \o join(invalidComponents(calls[p].input))
                       \o " not found or don't belong to status page "
                       \o ToString(calls[p].input.status_page_id))
       ELSE /\ Goto(p, "incidentResult", NULL, << >>)

(* lines 38-53, and line 94 when there is nothing to link: updated_at is  *)
(* the store's defaultNow(), and the call returns the row as inserted      *)
createIncident_incidentResult(p) ==
  /\ calls[p].op = "createIncident" /\ calls[p].pc = "incidentResult"
  /\ Len(incidents) < MaxIncidents
  /\ UNCHANGED <<now, butIncidents, lastWriter>>
  /\ LET input == calls[p].input
         incident == [id |-> Len(incidents) + 1,
                      status_page_id |-> input.status_page_id,
                      status |-> input.status,
                      impact |-> input.impact,
                      resolved_at |-> NULL,
                      updated_at |-> now]
     IN /\ incidents' = Append(incidents, incident)
        /\ IF Len(input.component_ids) > 0
             THEN /\ Goto(p, "componentLinks", NULL, [incident |-> incident])
             ELSE Return(p, incident)

(* lines 54-82, and line 94 when the target status is operational *)
createIncident_componentLinks(p) ==
  /\ calls[p].op = "createIncident" /\ calls[p].pc = "componentLinks"
  /\ UNCHANGED <<now, butIncidentComponents, lastWriter>>
  /\ incidentComponents' = incidentComponents \o
       componentLinks(calls[p].held.incident.id, calls[p].input.component_ids)
  /\ IF propagates(calls[p].input)
       THEN /\ Goto(p, "updated_at", NULL, calls[p].held)
       ELSE Return(p, calls[p].held.incident)

(* line 86: the handler goes on and reads updated_at for the status write *)
(* of this turn of the loop                                                *)
createIncident_updated_at(p) ==
  /\ calls[p].op = "createIncident" /\ calls[p].pc = "updated_at"
  /\ UNCHANGED <<now, db, lastWriter>>
  /\ Goto(p, "updateComponent", now, calls[p].held)

(* lines 82-90: the status write of one turn of the loop is applied, and  *)
(* line 94 after the last one                                              *)
createIncident_updateComponent(p) ==
  /\ calls[p].op = "createIncident" /\ calls[p].pc = "updateComponent"
  /\ UNCHANGED <<now, butComponents>>
  /\ LET input == calls[p].input
         componentId == input.component_ids[calls[p].k]
     IN /\ components' = writeComponentStatus(components, componentId,
                             newComponentStatus(input.impact), calls[p].stamp)
        /\ lastWriter' = [lastWriter EXCEPT
                            ![componentId] = calls[p].held.incident.id]
        /\ IF calls[p].k = Len(input.component_ids)
             THEN Return(p, calls[p].held.incident)
             ELSE calls' = [calls EXCEPT ![p].pc = "updated_at",
                                         ![p].stamp = NULL, ![p].k = @ + 1]

(* lines 83-89 and 95-98: the store rejects the write of this turn, and   *)
(* the driver's error ("Failed query: ...") is logged and rethrown; the    *)
(* handler opens no transaction, so nothing written before is undone.      *)
MutFailedWriteDropsLinks(p) ==
  /\ calls[p].op = "createIncident" /\ calls[p].pc = "updateComponent"
  /\ UNCHANGED <<now, butIncidentComponents, lastWriter>>
  /\ incidentComponents' =
       SelectSeq(incidentComponents,
                 LAMBDA l : l.incident_id # calls[p].held.incident.id)
  /\ Throw(p, "Failed query")

createIncident_updateComponentFails(p) ==
  /\ calls[p].op = "createIncident" /\ calls[p].pc = "updateComponent"
  /\ UNCHANGED <<now, db, lastWriter>>
  /\ Throw(p, "Failed query")

----------------------------------------------------------------------------
(* updateIncident *)

(* lines 9-32: the columns the patch sets on the incident row; updated_at *)
(* is the time read at line 10, resolved_at the time read at line 26       *)
MutUpdateDataNoStamp(row, input, updated_at, resolved_at) ==
  [row EXCEPT
     !.updated_at = updated_at,
     !.status = IF input.status # undefined THEN input.status ELSE @,
     !.impact = IF input.impact # undefined THEN input.impact ELSE @]

MutUpdateDataClearsStamp(row, input, updated_at, resolved_at) ==
  [row EXCEPT
     !.updated_at = updated_at,
     !.status = IF input.status # undefined THEN input.status ELSE @,
     !.resolved_at = IF input.status # undefined
                       THEN IF input.status = "resolved"
                              THEN resolved_at ELSE NULL
                       ELSE @,
     !.impact = IF input.impact # undefined THEN input.impact ELSE @]

updateData(row, input, updated_at, resolved_at) ==
  [row EXCEPT
     !.updated_at = updated_at,
     !.status = IF input.status # undefined THEN input.status ELSE @,
     !.resolved_at = IF input.status # undefined /\ input.status = "resolved"
                       THEN resolved_at ELSE @,
     !.impact = IF input.impact # undefined THEN input.impact ELSE @]

(* lines 8-25: the call is made and the patch begun; updated_at is read   *)
(* at line 10                                                              *)
updateIncident_updateData(p, input) ==
  /\ Free(p)
  /\ UNCHANGED <<now, db, lastWriter>>
  /\ Begin(p, "updateIncident", input,
           IF input.status # undefined /\ input.status = "resolved"
             THEN "resolved_at" ELSE "result",
           now, << >>)

(* line 26: resolved_at is read, after updated_at *)
updateIncident_resolved_at(p) ==
  /\ calls[p].op = "updateIncident" /\ calls[p].pc = "resolved_at"
  /\ UNCHANGED <<now, db, lastWriter>>
  /\ calls' = [calls EXCEPT ![p].pc = "result", ![p].resolved_at = now]

(* lines 35-45: the update is applied and returns the rows it changed *)
MutUpdateIncidentRestores(p) ==
  /\ calls[p].op = "updateIncident" /\ calls[p].pc = "result"
  /\ UNCHANGED <<now, organizations, statusPages, componentGroups, metrics,
                 incidentComponents, incidentUpdates, subscriptions,
                 maintenanceWindows, maintenanceComponents, lastWriter>>
  /\ LET input == calls[p].input
         linked == {incidentComponents[k].component_id :
                      k \in {j \in 1..Len(incidentComponents) :
                               incidentComponents[j].incident_id
                                 = input.incident_id}}
     IN IF Len(SelectSeq(incidents, LAMBDA i : i.id = input.incident_id)) = 0
          THEN /\ UNCHANGED <<incidents, components>>
               /\ Throw(p, "Incident with id "
                             \o ToString(input.incident_id) \o " not found")
          ELSE /\ incidents' =
                    [i \in 1..Len(incidents) |->
                       IF incidents[i].id = input.incident_id
                         THEN updateData(incidents[i], input, calls[p].stamp,
                                         calls[p].resolved_at)
                         ELSE incidents[i]]
               /\ components' =
                    [c \in 1..Len(components) |->
                       IF input.status = "resolved" /\ components[c].id \in linked
                         THEN [components[c] EXCEPT !.status = "operational"]
                         ELSE components[c]]
               /\ Return(p, incidents'[input.incident_id])

updateIncident_result(p) ==
  /\ calls[p].op = "updateIncident" /\ calls[p].pc = "result"
  /\ UNCHANGED <<now, butIncidents, lastWriter>>
  /\ LET input == calls[p].input
     IN IF Len(SelectSeq(incidents, LAMBDA i : i.id = input.incident_id)) = 0
          THEN /\ UNCHANGED incidents
               /\ Throw(p, "Incident with id "
                             \o ToString(input.incident_id) \o " not found")
          ELSE /\ incidents' =
                    [i \in 1..Len(incidents) |->
                       IF incidents[i].id = input.incident_id
                         THEN updateData(incidents[i], input, calls[p].stamp,
                                         calls[p].resolved_at)
                         ELSE incidents[i]]
               /\ Return(p, incidents'[input.incident_id])
----------------------------------------------------------------------------
(* createIncidentUpdate *)

(* lines 18-26: the insert of the update record, always performed *)
MutInsertKeepsLatestOnly(rows, input) ==
  LET incidentUpdate == [id |-> Len(rows) + 1,
                         incident_id |-> input.incident_id,
                         title |-> input.title,
                         body |-> input.body,
                         status |-> input.status]
  IN IF Len(rows) > 0 /\ rows[Len(rows)].incident_id = input.incident_id
       THEN [rows EXCEPT ![Len(rows)] = [incidentUpdate EXCEPT !.id = Len(rows)]]
       ELSE Append(rows, incidentUpdate)

insertIncidentUpdate(rows, input) ==
  Append(rows, [id |-> Len(rows) + 1,
                incident_id |-> input.incident_id,
                title |-> input.title,
                body |-> input.body,
                status |-> input.status])


(* line 33: the status of the input against the status read at line 9 *)
MutStatusDiffersUnlessResolved(currentIncident, input) ==
  currentIncident.status # input.status /\ currentIncident.status # "resolved"

MutStatusDiffersAlways(currentIncident, input) ==
  TRUE

statusDiffers(currentIncident, input) ==
  currentIncident.status # input.status

(* lines 34-41: the columns the update sets on the incident row;          *)
(* resolved_at is the time read at line 37, updated_at the time read at    *)
(* line 38                                                                 *)
MutStatusUpdateKeepsStamp(row, input, resolved_at, updated_at) ==
  [row EXCEPT
     !.status = input.status,
     !.resolved_at = IF input.status = "resolved" THEN resolved_at ELSE @,
     !.updated_at = updated_at]

statusUpdate(row, input, resolved_at, updated_at) ==
  [row EXCEPT
     !.status = input.status,
     !.resolved_at = IF input.status = "resolved" THEN resolved_at ELSE NULL,
     !.updated_at = updated_at]

(* lines 8-16 *)
createIncidentUpdate_existingIncident(p, input) ==
  /\ Free(p)
  /\ UNCHANGED <<now, db, lastWriter>>
  /\ LET existingIncident ==
           SelectSeq(incidents, LAMBDA i : i.id = input.incident_id)
     IN IF Len(existingIncident) = 0
          THEN Reject(p, "createIncidentUpdate", input,
                      "Incident with ID " \o ToString(input.incident_id)
                        \o " not found")
          ELSE /\ Begin(p, "createIncidentUpdate", input, "result", NULL,
                        [currentIncident |-> existingIncident[1]])

(* lines 19-33, and line 44 when the status read at line 9 is the status  *)
(* of the input: the insert of the update record is applied                *)
createIncidentUpdate_result(p) ==
  /\ calls[p].op = "createIncidentUpdate" /\ calls[p].pc = "result"
  /\ Len(incidentUpdates) < MaxUpdates
  /\ UNCHANGED <<now, butIncidentUpdates, lastWriter>>
  /\ LET input == calls[p].input
         result == insertIncidentUpdate(incidentUpdates, input)
         incidentUpdate == result[Len(result)]
     IN /\ incidentUpdates' = result
        /\ IF statusDiffers(calls[p].held.currentIncident, input)
             THEN /\ Goto(p, IF input.status = "resolved"
                               THEN "resolved_at" ELSE "updated_at",
                          NULL,
                          [currentIncident |-> calls[p].held.currentIncident,
                           incidentUpdate |-> incidentUpdate])
             ELSE Return(p, incidentUpdate)

(* line 37: the handler goes on and reads resolved_at, when the status of *)
(* the input is resolved                                                   *)
createIncidentUpdate_resolved_at(p) ==
  /\ calls[p].op = "createIncidentUpdate" /\ calls[p].pc = "resolved_at"
  /\ UNCHANGED <<now, db, lastWriter>>
  /\ calls' = [calls EXCEPT ![p].pc = "updated_at", ![p].resolved_at = now]

(* line 38: updated_at is read, after resolved_at *)
createIncidentUpdate_updated_at(p) ==
  /\ calls[p].op = "createIncidentUpdate" /\ calls[p].pc = "updated_at"
  /\ UNCHANGED <<now, db, lastWriter>>
  /\ Goto(p, "updateIncident", now, calls[p].held)

(* lines 34-44: the update of the incident row as it is now *)
createIncidentUpdate_updateIncident(p) ==
  /\ calls[p].op = "createIncidentUpdate" /\ calls[p].pc = "updateIncident"
  /\ UNCHANGED <<now, butIncidents, lastWriter>>
  /\ incidents' =
       [i \in 1..Len(incidents) |->
          IF incidents[i].id = calls[p].input.incident_id
            THEN statusUpdate(incidents[i], calls[p].input,
                              calls[p].resolved_at, calls[p].stamp)
            ELSE incidents[i]]
  /\ Return(p, calls[p].held.incidentUpdate)
----------------------------------------------------------------------------
(* Inputs *)

PageInputs == {1, 2, 3}

SlugInputs == {"acme", "beta", "nope"}

ComponentIdInputs == 1..MaxComponents

IncidentIdInputs == 1..(MaxIncidents + 1)

CreateStatusPageInputs ==
  [organization_id : {1, 2, 3}, is_public : BOOLEAN]

CreateComponentGroupInputs == [status_page_id : PageInputs]

(* component_group_id: left out, a group that may exist, one that never   *)
(* does                                                                    *)
CreateComponentInputs ==
  [status_page_id : PageInputs, component_group_id : {NULL, 1, 7},
   status : componentStatusEnum, is_visible : BOOLEAN]

UpdateComponentStatusInputs ==
  [component_id : ComponentIdInputs, status : componentStatusEnum]

CreateMetricInputs ==
  [component_id : ComponentIdInputs, timestamp : 0..MaxDate,
   status : componentStatusEnum, response_time : {NULL, 0, 120}]

CreateSubscriptionInputs ==
  [status_page_id : PageInputs, email : {"a@x.io", "b@x.io"},
   subscribed_to_incidents : BOOLEAN, subscribed_to_maintenance : {TRUE}]

CreateMaintenanceWindowInputs ==
  [status_page_id : PageInputs, scheduled_start : 0..MaxDate,
   scheduled_end : 0..MaxDate,
   component_ids : SeqsUpTo(ComponentIdInputs, MaxIds)]

CreateIncidentInputs ==
  [status_page_id : PageInputs, status : incidentStatusEnum,
   impact : incidentImpactEnum,
   component_ids : SeqsUpTo(ComponentIdInputs, MaxIds)]

UpdateIncidentInputs ==
  [incident_id : IncidentIdInputs,
   status : incidentStatusEnum \cup {undefined},
   impact : incidentImpactEnum \cup {undefined}]

CreateIncidentUpdateInputs ==
  [incident_id : IncidentIdInputs, title : {"t1", "t2"}, body : {"b1"},
   status : incidentStatusEnum]

----------------------------------------------------------------------------
(* Every handler, every input, calls overlapping in every way. *)

Next ==
  \/ Tick
  \/ \E p \in CallIds :
       \/ \E input \in CreateStatusPageInputs :
            createStatusPage_organizations(p, input)
       \/ createStatusPage_result(p)
       \/ \E input \in CreateComponentGroupInputs :
            createComponentGroup_statusPage(p, input)
       \/ createComponentGroup_result(p)
       \/ \E input \in CreateComponentInputs :
            createComponent_statusPageExists(p, input)
       \/ createComponent_componentGroupExists(p)
       \/ createComponent_result(p)
       \/ \E input \in UpdateComponentStatusInputs :
            updateComponentStatus_existingComponents(p, input)
       \/ updateComponentStatus_updated_at(p)
       \/ updateComponentStatus_updatedComponents(p)
       \/ updateComponentStatus_timestamp(p)
       \/ updateComponentStatus_insertMetric(p)
       \/ \E input \in CreateMetricInputs : createMetric_component(p, input)
       \/ createMetric_result(p)
       \/ \E slug \in SlugInputs :
            getPublicStatusPage_organizationResults(p, slug)
       \/ getPublicStatusPage_componentGroups(p)
       \/ getPublicStatusPage_components(p)
       \/ getPublicStatusPage_activeIncidents(p)
       \/ getPublicStatusPage_now(p)
       \/ getPublicStatusPage_upcomingMaintenance(p)
       \/ \E input \in CreateIncidentInputs :
            createIncident_statusPage(p, input)
       \/ createIncident_components(p)
       \/ createIncident_incidentResult(p)
       \/ createIncident_componentLinks(p)
       \/ createIncident_updated_at(p)
       \/ createIncident_updateComponent(p)
       \/ createIncident_updateComponentFails(p)
       \/ \E input \in UpdateIncidentInputs :
            updateIncident_updateData(p, input)
       \/ updateIncident_resolved_at(p)
       \/ updateIncident_result(p)
       \/ \E input \in CreateIncidentUpdateInputs :
            createIncidentUpdate_existingIncident(p, input)
       \/ createIncidentUpdate_result(p)
       \/ createIncidentUpdate_resolved_at(p)
       \/ createIncidentUpdate_updated_at(p)
       \/ createIncidentUpdate_updateIncident(p)
       \/ \E input \in CreateSubscriptionInputs :
            createSubscription_statusPage(p, input)
       \/ createSubscription_existingSubscription(p)
       \/ createSubscription_result(p)
       \/ \E input \in CreateMaintenanceWindowInputs :
            createMaintenanceWindow_statusPage(p, input)
       \/ createMaintenanceWindow_result(p)
       \/ createMaintenanceWindow_componentLinks(p)

Spec == Init /\ [][Next]_vars

----------------------------------------------------------------------------
(* The specifications below take the calls of some handlers on some       *)
(* inputs; in each of them a call of any of its handlers can be made in    *)
(* any slot while the call of the other slot is in progress.               *)

(* The public page over components created with every status, visible or  *)
(* not, in a group or not; the clock stands and no incident is opened.     *)

PageGroupInputs == [status_page_id : {1}]

PageComponentInputs ==
  [status_page_id : {1}, component_group_id : {NULL},
   status : componentStatusEnum, is_visible : {TRUE}]
    \cup [status_page_id : {1}, component_group_id : {NULL},
          status : {"major_outage"}, is_visible : {FALSE}]
    \cup [status_page_id : {1}, component_group_id : {1},
          status : {"operational"}, is_visible : {TRUE}]

NextPage ==
  \E p \in CallIds :
    \/ \E input \in PageGroupInputs : createComponentGroup_statusPage(p, input)
    \/ createComponentGroup_result(p)
    \/ \E input \in PageComponentInputs :
         createComponent_statusPageExists(p, input)
    \/ createComponent_componentGroupExists(p)
    \/ createComponent_result(p)
    \/ \E slug \in {"acme"} :
         getPublicStatusPage_organizationResults(p, slug)
    \/ getPublicStatusPage_componentGroups(p)
    \/ getPublicStatusPage_components(p)
    \/ getPublicStatusPage_activeIncidents(p)
    \/ getPublicStatusPage_now(p)
    \/ getPublicStatusPage_upcomingMaintenance(p)

SpecPage == Init /\ [][NextPage]_vars

(* Impact propagation: two components of page 1 and the incidents opened  *)
(* on them with every kind of impact, incidents on another page or on      *)
(* none, and the store rejecting a status write at any turn.               *)

ImpactComponentInputs ==
  [status_page_id : {1}, component_group_id : {NULL},
   status : {"operational", "under_maintenance"}, is_visible : {TRUE}]

ImpactComponents == 2

ImpactIncidentInputs ==
  [status_page_id : {1}, status : {"investigating"},
   impact : {"none", "minor", "critical"},
   component_ids : {<<1>>, <<2, 1>>}]
    \cup [status_page_id : {1}, status : {"investigating"},
          impact : {"major"}, component_ids : {<<2, 1>>}]
    \cup [status_page_id : {2, 3}, status : {"investigating"},
          impact : {"critical"}, component_ids : {<<1>>}]

NextImpact ==
  \E p \in CallIds :
    \/ \E input \in ImpactComponentInputs :
         createComponent_statusPageExists(p, input)
    \/ Len(components) < ImpactComponents /\ createComponent_result(p)
    \/ \E input \in ImpactIncidentInputs : createIncident_statusPage(p, input)
    \/ createIncident_components(p)
    \/ createIncident_incidentResult(p)
    \/ createIncident_componentLinks(p)
    \/ createIncident_updated_at(p)
    \/ createIncident_updateComponent(p)
    \/ createIncident_updateComponentFails(p)

SpecImpact == Init /\ [][NextImpact]_vars

(* The life of an incident: an incident without components, the two ways  *)
(* to set its status, calls on an incident that does not exist, and the    *)
(* clock.                                                                  *)

LifeIncidents == 1

LifeIncidentInputs ==
  [status_page_id : {1}, status : {"investigating", "resolved"},
   impact : {"minor"}, component_ids : {<< >>}]

LifeUpdateIncidentInputs ==
  [incident_id : {1},
   status : {"investigating", "monitoring", "resolved", undefined},
   impact : {undefined}]
    \cup [incident_id : {2}, status : {"resolved"}, impact : {undefined}]

LifeIncidentUpdateInputs ==
  [incident_id : {1}, title : {"t1"}, body : {"b1"},
   status : {"investigating", "monitoring", "resolved"}]
    \cup [incident_id : {2}, title : {"t1"}, body : {"b1"},
          status : {"resolved"}]

NextLife ==
  \/ Tick
  \/ \E p \in CallIds :
       \/ \E input \in LifeIncidentInputs :
            createIncident_statusPage(p, input)
       \/ Len(incidents) < LifeIncidents /\ createIncident_incidentResult(p)
       \/ \E input \in LifeUpdateIncidentInputs :
            updateIncident_updateData(p, input)
       \/ updateIncident_resolved_at(p)
       \/ updateIncident_result(p)
       \/ \E input \in LifeIncidentUpdateInputs :
            createIncidentUpdate_existingIncident(p, input)
       \/ createIncidentUpdate_result(p)
       \/ createIncidentUpdate_resolved_at(p)
       \/ createIncidentUpdate_updated_at(p)
       \/ createIncidentUpdate_updateIncident(p)

SpecLife == Init /\ [][NextLife]_vars

(* Incidents with linked components under every operation that follows    *)
(* their creation: both status paths of the incident and the direct write  *)
(* of a component's status.                                                *)

OpsComponentInputs ==
  [status_page_id : {1}, component_group_id : {NULL},
   status : {"operational"}, is_visible : {TRUE}]

OpsIncidentInputs ==
  [status_page_id : {1}, status : {"investigating"},
   impact : {"critical"}, component_ids : {<<1>>, <<2, 1>>}]

OpsUpdateIncidentInputs ==
  [incident_id : {1}, status : {"resolved"}, impact : {undefined}]

OpsIncidentUpdateInputs ==
  [incident_id : {1}, title : {"t1"}, body : {"b1"}, status : {"resolved"}]

OpsComponentStatusInputs ==
  [component_id : {1}, status : {"operational"}]

NextOps ==
  \E p \in CallIds :
    \/ \E input \in OpsComponentInputs :
         createComponent_statusPageExists(p, input)
    \/ createComponent_result(p)
    \/ \E input \in OpsIncidentInputs : createIncident_statusPage(p, input)
    \/ createIncident_components(p)
    \/ createIncident_incidentResult(p)
    \/ createIncident_componentLinks(p)
    \/ createIncident_updated_at(p)
    \/ createIncident_updateComponent(p)
    \/ \E input \in OpsUpdateIncidentInputs :
         updateIncident_updateData(p, input)
    \/ updateIncident_resolved_at(p)
    \/ updateIncident_result(p)
    \/ \E input \in OpsIncidentUpdateInputs :
         createIncidentUpdate_existingIncident(p, input)
    \/ createIncidentUpdate_result(p)
    \/ createIncidentUpdate_resolved_at(p)
    \/ createIncidentUpdate_updated_at(p)
    \/ createIncidentUpdate_updateIncident(p)
    \/ \E input \in OpsComponentStatusInputs :
         updateComponentStatus_existingComponents(p, input)
    \/ updateComponentStatus_updated_at(p)
    \/ updateComponentStatus_updatedComponents(p)
    \/ updateComponentStatus_timestamp(p)
    \/ updateComponentStatus_insertMetric(p)

SpecOps == Init /\ [][NextOps]_vars

(* Calls of createIncident on the two components of page 1, listed in     *)
(* either order, with the store rejecting a status write at any turn.      *)

RaceIncidentInputs ==
  [status_page_id : {1}, status : {"investigating"},
   impact : {"none", "minor", "critical"},
   component_ids : {<<1, 2>>, <<2, 1>>}]

RaceComponents == 2

NextRace ==
  \E p \in CallIds :
    \/ \E input \in OpsComponentInputs :
         createComponent_statusPageExists(p, input)
    \/ Len(components) < RaceComponents /\ createComponent_result(p)
    \/ \E input \in RaceIncidentInputs : createIncident_statusPage(p, input)
    \/ createIncident_components(p)
    \/ createIncident_incidentResult(p)
    \/ createIncident_componentLinks(p)
    \/ createIncident_updated_at(p)
    \/ createIncident_updateComponent(p)
    \/ createIncident_updateComponentFails(p)

SpecRace == Init /\ [][NextRace]_vars

(* The public page read while components of both pages, visible or not,   *)
(* are created and their statuses set by hand.                             *)

ViewComponentInputs ==
  [status_page_id : {1}, component_group_id : {NULL},
   status : {"operational", "degraded_performance"}, is_visible : {TRUE}]
    \cup [status_page_id : {1}, component_group_id : {NULL},
          status : {"major_outage"}, is_visible : {FALSE}]
    \cup [status_page_id : {2}, component_group_id : {NULL},
          status : {"major_outage"}, is_visible : {TRUE}]

ViewStatusInputs ==
  [component_id : {3}, status : {"operational", "major_outage"}]
    \cup [component_id : {1}, status : {"major_outage"}]

NextView ==
  \E p \in CallIds :
    \/ \E input \in ViewComponentInputs :
         createComponent_statusPageExists(p, input)
    \/ createComponent_result(p)
    \/ \E input \in ViewStatusInputs :
         updateComponentStatus_existingComponents(p, input)
    \/ updateComponentStatus_updated_at(p)
    \/ updateComponentStatus_updatedComponents(p)
    \/ updateComponentStatus_timestamp(p)
    \/ updateComponentStatus_insertMetric(p)
    \/ \E slug \in {"acme"} :
         getPublicStatusPage_organizationResults(p, slug)
    \/ getPublicStatusPage_componentGroups(p)
    \/ getPublicStatusPage_components(p)
    \/ getPublicStatusPage_activeIncidents(p)
    \/ getPublicStatusPage_now(p)
    \/ getPublicStatusPage_upcomingMaintenance(p)

SpecView == Init /\ [][NextView]_vars

(* The direct write of a component's status on two components and on one  *)
(* that does not exist, the metrics recorded by hand, and the clock.       *)

StatusComponentInputs ==
  [status_page_id : {1}, component_group_id : {NULL},
   status : {"operational", "partial_outage"}, is_visible : {TRUE}]

StatusComponents == 2

StatusInputs ==
  [component_id : {1},
   status : {"operational", "major_outage", "under_maintenance"}]
    \cup [component_id : {2, 3}, status : {"major_outage"}]

StatusMetricInputs ==
  [component_id : {1}, timestamp : {0},
   status : {"operational"}, response_time : {120}]

NextStatus ==
  \/ Tick
  \/ \E p \in CallIds :
       \/ \E input \in StatusComponentInputs :
            createComponent_statusPageExists(p, input)
       \/ Len(components) < StatusComponents /\ createComponent_result(p)
       \/ \E input \in StatusInputs :
            updateComponentStatus_existingComponents(p, input)
       \/ updateComponentStatus_updated_at(p)
       \/ updateComponentStatus_updatedComponents(p)
       \/ updateComponentStatus_timestamp(p)
       \/ updateComponentStatus_insertMetric(p)
       \/ \E input \in StatusMetricInputs : createMetric_component(p, input)
       \/ createMetric_result(p)

SpecStatus == Init /\ [][NextStatus]_vars

(* Subscriptions to the pages of the fixture and to a page that is not    *)
(* public.                                                                 *)

SubscribeStatusPageInputs ==
  [organization_id : {1, 3}, is_public : {FALSE}]

SubscribeInputs ==
  [status_page_id : PageInputs \cup {4}, email : {"a@x.io", "b@x.io"},
   subscribed_to_incidents : {TRUE}, subscribed_to_maintenance : {TRUE}]

NextSubscribe ==
  \E p \in CallIds :
    \/ \E input \in SubscribeStatusPageInputs :
         createStatusPage_organizations(p, input)
    \/ createStatusPage_result(p)
    \/ \E input \in SubscribeInputs :
         createSubscription_statusPage(p, input)
    \/ createSubscription_existingSubscription(p)
    \/ createSubscription_result(p)

SpecSubscribe == Init /\ [][NextSubscribe]_vars

(* Maintenance windows over the components of page 1, and the public page *)
(* that lists them.                                                        *)

MaintainWindowInputs ==
  [status_page_id : {1, 3}, scheduled_start : 0..MaxDate,
   scheduled_end : {1}, component_ids : {<< >>, <<1, 2>>}]

NextMaintain ==
  \/ Tick
  \/ \E p \in CallIds :
       \/ \E input \in OpsComponentInputs :
            createComponent_statusPageExists(p, input)
       \/ createComponent_result(p)
       \/ \E input \in MaintainWindowInputs :
            createMaintenanceWindow_statusPage(p, input)
       \/ createMaintenanceWindow_result(p)
       \/ createMaintenanceWindow_componentLinks(p)
       \/ \E slug \in {"acme"} :
            getPublicStatusPage_organizationResults(p, slug)
       \/ getPublicStatusPage_componentGroups(p)
       \/ getPublicStatusPage_components(p)
       \/ getPublicStatusPage_activeIncidents(p)
       \/ getPublicStatusPage_now(p)
       \/ getPublicStatusPage_upcomingMaintenance(p)

SpecMaintain == Init /\ [][NextMaintain]_vars

(* Calls of createIncidentUpdate on incidents opened as investigating or  *)
(* monitoring.                                                             *)

UpdateRaceIncidentInputs ==
  [status_page_id : {1}, status : {"investigating", "monitoring"},
   impact : {"minor"}, component_ids : {<< >>}]

UpdateRaceInputs ==
  [incident_id : IncidentIdInputs, title : {"t1"}, body : {"b1"},
   status : incidentStatusEnum]

NextUpdateRace ==
  \E p \in CallIds :
    \/ \E input \in UpdateRaceIncidentInputs :
         createIncident_statusPage(p, input)
    \/ createIncident_incidentResult(p)
    \/ \E input \in UpdateRaceInputs :
         createIncidentUpdate_existingIncident(p, input)
    \/ createIncidentUpdate_result(p)
    \/ createIncidentUpdate_resolved_at(p)
    \/ createIncidentUpdate_updated_at(p)
    \/ createIncidentUpdate_updateIncident(p)

SpecUpdateRace == Init /\ [][NextUpdateRace]_vars
----------------------------------------------------------------------------
(* Properties of the overall status (SpecPage) *)

(* The call in slot p was getPublicStatusPage and it returned a page. *)
PageReturned(p) ==
  /\ calls[p].op = "getPublicStatusPage"
  /\ calls[p].pc = "returned"
  /\ ~calls[p].out.null

(* The statuses of the visible component rows of a page, read off the     *)
(* table itself.                                                           *)
VisibleStatuses(status_page_id) ==
  {components[i].status :
     i \in {j \in 1..Len(components) :
              /\ components[j].status_page_id = status_page_id
              /\ components[j].is_visible}}

(* The statuses of the component rows of the page the call in slot p      *)
(* returned: the visible rows of its page as the call read them (C22),     *)
(* whatever other calls have made of the table since.                      *)
ShownStatuses(p) ==
  {calls[p].out.components[i].status : i \in 1..Len(calls[p].out.components)}

(* The table still shows the rows the call in slot p returned. *)
AsRead(p) ==
  /\ ShownStatuses(p) = VisibleStatuses(calls[p].out.status_page.id)
  /\ Len(calls[p].out.components)
       = Cardinality({j \in 1..Len(components) :
                       /\ components[j].status_page_id
                            = calls[p].out.status_page.id
                       /\ components[j].is_visible})

(* C1: a visible component at major_outage makes the overall status       *)
(* major_outage, whatever the other visible components are.                *)
C1_MajorOutageWins ==
  \A p \in CallIds :
    (PageReturned(p) /\ "major_outage" \in ShownStatuses(p))
      => calls[p].out.overall_status = "major_outage"

C1_Witness ==
  \E p \in CallIds :
    /\ PageReturned(p) /\ AsRead(p)
    /\ {"major_outage", "under_maintenance", "operational"}
         \subseteq ShownStatuses(p)
    /\ calls[p].out.overall_status = "major_outage"

(* C2: under_maintenance is the overall status only when nothing visible  *)
(* is degraded_performance, partial_outage or major_outage; alone among   *)
(* the non-operational statuses it is the result, and next to             *)
(* degraded_performance (and nothing more severe) the result is           *)
(* degraded_performance.                                                   *)
C2_MaintenanceYields ==
  \A p \in CallIds :
    PageReturned(p) =>
      /\ calls[p].out.overall_status = "under_maintenance"
           => ShownStatuses(p) \cap
                {"degraded_performance", "partial_outage", "major_outage"} = {}
      /\ ("under_maintenance" \in ShownStatuses(p)
            /\ ShownStatuses(p) \subseteq {"operational", "under_maintenance"})
           => calls[p].out.overall_status = "under_maintenance"
      /\ ({"under_maintenance", "degraded_performance"}
              \subseteq ShownStatuses(p)
            /\ ShownStatuses(p) \cap {"partial_outage", "major_outage"} = {})
           => calls[p].out.overall_status = "degraded_performance"

C2_Witness ==
  \E p \in CallIds :
    /\ PageReturned(p) /\ AsRead(p)
    /\ ShownStatuses(p) = {"under_maintenance", "degraded_performance"}
    /\ calls[p].out.overall_status = "degraded_performance"

(* C3: partial_outage without major_outage among the visible components   *)
(* gives partial_outage, whatever else is there.                           *)
C3_PartialOutageNext ==
  \A p \in CallIds :
    (PageReturned(p) /\ "partial_outage" \in ShownStatuses(p)
                     /\ "major_outage" \notin ShownStatuses(p))
      => calls[p].out.overall_status = "partial_outage"

C3_Witness ==
  \E p \in CallIds :
    /\ PageReturned(p) /\ AsRead(p)
    /\ ShownStatuses(p) =
         {"partial_outage", "degraded_performance", "under_maintenance"}
    /\ calls[p].out.overall_status = "partial_outage"

(* C4: no visible component, or only operational ones, gives operational; *)
(* the call returns a page and does not throw.                             *)
C4_OperationalOtherwise ==
  \A p \in CallIds :
    /\ calls[p].op = "getPublicStatusPage" => calls[p].pc # "threw"
    /\ (PageReturned(p) /\ ShownStatuses(p) \subseteq {"operational"})
         => calls[p].out.overall_status = "operational"

C4_Witness ==
  \E p \in CallIds :
    /\ PageReturned(p)
    /\ AsRead(p)
    /\ ShownStatuses(p) = {}
    /\ Len(calls[p].out.components) = 0
    /\ Len(components) > 0
    /\ calls[p].out.overall_status = "operational"

(* C27: the overall status of a returned page is the one computed from    *)
(* any list made of the returned component rows that shows the same set    *)
(* of statuses: the rows in another order, or with rows repeated.          *)
C27_OverallStatusOfStatusSet ==
  \A p \in CallIds :
    PageReturned(p)
      => \A s \in SeqsUpTo(Range(calls[p].out.components), MaxComponents + 1) :
           {s[i].status : i \in 1..Len(s)} = ShownStatuses(p)
             => overallStatus(s) = calls[p].out.overall_status

C27_Witness ==
  \E p \in CallIds :
    /\ PageReturned(p) /\ AsRead(p)
    /\ Len(calls[p].out.components) = 3
    /\ calls[p].out.components[1].status = "under_maintenance"
    /\ calls[p].out.components[2].status = "major_outage"
    /\ calls[p].out.components[3].status = "under_maintenance"
    /\ calls[p].out.overall_status = "major_outage"

----------------------------------------------------------------------------
(* Properties of impact propagation (SpecImpact) *)

(* The call in slot p is a call of the handler `op` in progress. *)
Running(p, op) == calls[p].op = op /\ ~Free(p)

(* The call in slot p is a call of the handler `op` that has returned. *)
Returned(p, op) == calls[p].op = op /\ calls[p].pc = "returned"

(* This step is a step of the call of `op` in progress in slot p. *)
StepOf(p, op) == Running(p, op) /\ calls'[p] # calls[p]

(* This step is the return of the call of `op` in slot p. *)
Returns(p, op) == Running(p, op) /\ calls'[p].pc = "returned"

(* This step is a status write of the propagation loop of the call in     *)
(* slot p: the loop moves on to the next id, or the call returns.          *)
WritesStatus(p) ==
  /\ calls[p].op = "createIncident" /\ calls[p].pc = "updateComponent"
  /\ \/ calls'[p].pc = "returned"
     \/ calls'[p].pc = "updated_at" /\ calls'[p].k = calls[p].k + 1

(* The table of section 4.2, written out on its own. *)
TargetOf(impact) ==
  [critical |-> "major_outage", major |-> "partial_outage",
   minor |-> "degraded_performance", none |-> "operational"][impact]

StatusMap(rows) == [i \in 1..Len(rows) |-> rows[i].status]

(* The links of an incident, in insertion order. *)
LinksOf(links, incident_id) ==
  SelectSeq(links, LAMBDA l : l.incident_id = incident_id)

LinkedIds(links, incident_id) ==
  {l.component_id : l \in Range(LinksOf(links, incident_id))}

(* The component ids of the links of an incident, in insertion order. *)
LinkList(links, incident_id) ==
  [k \in 1..Len(LinksOf(links, incident_id)) |->
     LinksOf(links, incident_id)[k].component_id]

(* C5 as stated: a createIncident with impact critical, major or minor   *)
(* and a non-empty component_ids has, when it returns, set the listed      *)
(* components to major_outage, partial_outage, degraded_performance; no    *)
(* step of the call changes the status of a component that is not listed.  *)
C5_ImpactSetsListed ==
  [][\A p \in CallIds :
       StepOf(p, "createIncident")
         => LET input == calls[p].input
            IN /\ \A i \in 1..Len(components) :
                    i \notin Range(input.component_ids)
                      => components'[i].status = components[i].status
               /\ (/\ calls'[p].pc = "returned"
                   /\ input.impact \in {"critical", "major", "minor"}
                   /\ input.component_ids # << >>)
                    => \A i \in Range(input.component_ids) :
                         components'[i].status = TargetOf(input.impact)]_vars

(* C5, amended: each status write of a createIncident with impact         *)
(* critical, major or minor sets the listed component of its turn to       *)
(* major_outage, partial_outage, degraded_performance; when the call       *)
(* returns, every listed component holds that status unless the write of   *)
(* another call to it was applied after this call's, and all of them do    *)
(* with the calls made one after another; no step of the call changes the  *)
(* status of a component that is not listed.                               *)
C5_ImpactSetsListedLastWritten ==
  [][\A p \in CallIds :
       StepOf(p, "createIncident")
         => LET input == calls[p].input
                returns == /\ calls'[p].pc = "returned"
                           /\ input.impact \in {"critical", "major", "minor"}
                           /\ input.component_ids # << >>
            IN /\ \A i \in 1..Len(components) :
                    i \notin Range(input.component_ids)
                      => components'[i].status = components[i].status
               /\ WritesStatus(p)
                    => /\ input.impact \in {"critical", "major", "minor"}
                       /\ components'[input.component_ids[calls[p].k]].status
                            = TargetOf(input.impact)
                       /\ \A i \in 1..Len(components) :
                            i # input.component_ids[calls[p].k]
                              => components'[i] = components[i]
               /\ returns
                    => \A i \in Range(input.component_ids) :
                         lastWriter'[i] = calls'[p].out.id
                           => components'[i].status = TargetOf(input.impact)
               /\ (returns /\ Serial)
                    => \A i \in Range(input.component_ids) :
                         components'[i].status = TargetOf(input.impact)]_vars

(* A critical and a minor incident on the same two components were        *)
(* created at the same time: the critical call has returned and the first  *)
(* component it wrote shows the status the minor call wrote later.         *)
C5_Witness ==
  \E p \in CallIds :
    /\ Returned(p, "createIncident")
    /\ calls[p].input.impact = "critical"
    /\ calls[p].input.component_ids = <<2, 1>>
    /\ lastWriter[1] = calls[p].out.id
    /\ lastWriter[2] # calls[p].out.id
    /\ StatusMap(components) = <<"major_outage", "degraded_performance">>

(* C6: no step of a createIncident with impact none changes a component   *)
(* status, so the call restores nothing; when it returns, the incident and *)
(* its links are recorded.                                                 *)
C6_NoneWritesNothing ==
  [][\A p \in CallIds :
       (StepOf(p, "createIncident") /\ calls[p].input.impact = "none")
         => /\ StatusMap(components') = StatusMap(components)
            /\ calls'[p].pc # "threw"
                 => \A k \in 1..Len(incidentComponents) :
                      incidentComponents'[k] = incidentComponents[k]
            /\ calls'[p].pc = "returned"
                 => /\ calls'[p].out.id \in 1..Len(incidents')
                    /\ Serial => calls'[p].out.id = Len(incidents')
                    /\ incidents'[calls'[p].out.id].impact = "none"
                    /\ LinkList(incidentComponents', calls'[p].out.id)
                         = calls[p].input.component_ids]_vars

C6_Witness ==
  \E p \in CallIds :
    /\ Len(incidents) = 2
    /\ incidents[1].impact = "minor" /\ LinkedIds(incidentComponents, 1) = {1}
    /\ incidents[2].impact = "none" /\ LinkedIds(incidentComponents, 2) = {1}
    /\ Returned(p, "createIncident") /\ calls[p].out.id = 2
    /\ components[1].status = "degraded_performance"

(* The severity order of section 3; under_maintenance stands outside it.  *)
Rank(status) ==
  [operational |-> 0, degraded_performance |-> 1, partial_outage |-> 2,
   major_outage |-> 3, under_maintenance |-> 0][status]

(* C7: a status write of the propagation loop that finds the component at *)
(* a more severe status than the target of the new incident, or at         *)
(* under_maintenance, overwrites it with the target all the same.          *)
C7_OverwritesMoreSevere ==
  [][\A p \in CallIds :
       WritesStatus(p)
         => LET c == calls[p].input.component_ids[calls[p].k]
                target == TargetOf(calls[p].input.impact)
            IN (\/ Rank(components[c].status) > Rank(target)
                \/ components[c].status = "under_maintenance")
                 => components'[c].status = target]_vars

C7_Witness ==
  \E p \in CallIds :
    /\ Len(incidents) = 2
    /\ incidents[1].impact = "critical"
    /\ 1 \in LinkedIds(incidentComponents, 1)
    /\ incidents[2].impact = "minor" /\ 1 \in LinkedIds(incidentComponents, 2)
    /\ Returned(p, "createIncident") /\ calls[p].out.id = 2
    /\ components[1].status = "degraded_performance"

(* C8: the status writes of a createIncident that has the impact and the  *)
(* component_ids of the incident created before it, and finds the listed   *)
(* components as the propagation of that incident (or its own earlier      *)
(* turns) wrote them, leave every component status as the first            *)
(* propagation left it.                                                    *)
C8_PropagationIdempotent ==
  [][\A p \in CallIds :
       (/\ WritesStatus(p)
        /\ calls[p].held.incident.id > 1
        /\ \A c \in Range(calls[p].input.component_ids) :
             lastWriter[c] \in {calls[p].held.incident.id - 1,
                                calls[p].held.incident.id}
        /\ incidents[calls[p].held.incident.id - 1].impact
             = calls[p].input.impact
        /\ LinkList(incidentComponents, calls[p].held.incident.id - 1)
             = calls[p].input.component_ids)
         => StatusMap(components') = StatusMap(components)]_vars

C8_Witness ==
  \E p \in CallIds :
    /\ Len(incidents) = 2
    /\ Returned(p, "createIncident") /\ calls[p].out.id = 2
    /\ lastWriter[1] = 2 /\ lastWriter[2] = 2
    /\ incidents[1].impact = "major" /\ incidents[2].impact = "major"
    /\ LinkList(incidentComponents, 1) = <<2, 1>>
    /\ LinkList(incidentComponents, 2) = <<2, 1>>
    /\ calls[p].input.component_ids = <<2, 1>>
    /\ \A i \in LinkedIds(incidentComponents, 2) :
         components[i].status = "partial_outage"

----------------------------------------------------------------------------
(* createIncident's validation (SpecImpact) *)

(* The status page of the input exists and every listed id is the id of a *)
(* component of that page.                                                 *)
ValidIncidentInput(input) ==
  /\ \E k \in 1..Len(statusPages) : statusPages[k].id = input.status_page_id
  /\ \A k \in 1..Len(input.component_ids) :
       \E c \in 1..Len(components) :
         /\ components[c].id = input.component_ids[k]
         /\ components[c].status_page_id = input.status_page_id

(* C18: a createIncident call gets past its checks only with an input     *)
(* whose status page exists and whose component_ids are all components of  *)
(* that page; any other input makes the call fail, and the step at which   *)
(* a call fails leaves every table as it was: no incident row, no link, no *)
(* component status change.                                                *)
C18_InvalidInputWritesNothing ==
  [][\A p \in CallIds :
       /\ (/\ calls'[p].op = "createIncident"
           /\ calls'[p].pc \in {"incidentResult", "componentLinks",
                                "updated_at", "updateComponent", "returned"})
            => ValidIncidentInput(calls'[p].input)
       /\ (/\ calls'[p] # calls[p]
           /\ calls'[p].op = "createIncident" /\ calls'[p].pc = "threw")
            => /\ incidents' = incidents
               /\ incidentComponents' = incidentComponents
               /\ components' = components]_vars

(* A call for page 2 naming the component of page 1 has failed while that  *)
(* component and an incident of page 1 linked to it exist.                 *)
C18_Witness ==
  \E p \in CallIds :
    /\ calls[p].op = "createIncident" /\ calls[p].pc = "threw"
    /\ calls[p].out
         = "Components with ids 1 not found or don't belong to status page 2"
    /\ Len(components) = 1
    /\ Len(incidents) = 1
    /\ LinkedIds(incidentComponents, 1) = {1}
    /\ components[1].status = "major_outage"

----------------------------------------------------------------------------
(* Properties of the incident's resolution time (SpecLife) *)

(* This step is the return of the call in slot p, made through `op` with  *)
(* status resolved.                                                        *)
ReturnsResolved(p, op) ==
  Returns(p, op) /\ calls[p].input.status = "resolved"

(* The row is resolved and carries the time the call in slot p read from  *)
(* the clock for resolved_at.                                              *)
Stamped(row, p) ==
  /\ row.status = "resolved"
  /\ row.resolved_at # NULL
  /\ row.resolved_at = calls[p].resolved_at

(* A time a call reads for a write is the time of the clock at that step. *)
StampIsNow(p) ==
  /\ (calls'[p].stamp # NULL /\ calls'[p].stamp # calls[p].stamp)
       => calls'[p].stamp = now
  /\ (calls'[p].resolved_at # NULL
        /\ calls'[p].resolved_at # calls[p].resolved_at)
       => calls'[p].resolved_at = now

(* C9 as stated: every call that sets status resolved, through either     *)
(* path, leaves the incident resolved with resolved_at the time the call   *)
(* read.                                                                   *)
C9_ResolvedStampsNow ==
  [][\A p \in CallIds :
       (\/ ReturnsResolved(p, "updateIncident")
        \/ ReturnsResolved(p, "createIncidentUpdate"))
         => Stamped(incidents'[calls[p].input.incident_id], p)]_vars

(* C9, amended: updateIncident with status resolved, and                  *)
(* createIncidentUpdate with status resolved on an incident that is not    *)
(* resolved yet, leave the incident resolved with resolved_at the time the *)
(* call read from the clock while it ran.                                  *)
C9_ResolvingStampsNow ==
  [][\A p \in CallIds :
       /\ StampIsNow(p)
       /\ (\/ ReturnsResolved(p, "updateIncident")
           \/ /\ ReturnsResolved(p, "createIncidentUpdate")
              /\ calls[p].held.currentIncident.status # "resolved")
            => Stamped(incidents'[calls[p].input.incident_id], p)]_vars

C9_Witness ==
  \E p \in CallIds :
    /\ Returned(p, "createIncidentUpdate")
    /\ calls[p].input.status = "resolved"
    /\ now > 0
    /\ incidents[calls[p].input.incident_id].status = "resolved"
    /\ incidents[calls[p].input.incident_id].resolved_at = now
    /\ incidents[calls[p].input.incident_id].updated_at = now

(* C10: resolved_at is written once in the life of an incident: at the    *)
(* step that takes the status to resolved it was null and is set, and a    *)
(* step that finds the incident resolved and stamped and leaves it         *)
(* resolved does not move the stamp.                                       *)
C10_StampedOnce ==
  [][\A i \in 1..Len(incidents) :
       /\ (incidents[i].status # "resolved" /\ incidents'[i].status = "resolved")
            => /\ incidents[i].resolved_at = NULL
               /\ incidents'[i].resolved_at # NULL
       /\ (/\ incidents[i].status = "resolved"
           /\ incidents[i].resolved_at # NULL
           /\ incidents'[i].status = "resolved")
            => incidents'[i].resolved_at = incidents[i].resolved_at]_vars

----------------------------------------------------------------------------
(* Properties of the incident's status history (SpecLife) *)

(* C11: resolved is terminal: no step takes an incident whose status is   *)
(* resolved to investigating, identified or monitoring.                    *)
C11_ResolvedIsTerminal ==
  [][\A i \in 1..Len(incidents) :
       incidents[i].status = "resolved"
         => incidents'[i].status = "resolved"]_vars

(* C12: an updateIncident whose status is investigating, identified,      *)
(* monitoring or omitted returns with resolved_at left as it was, also     *)
(* when it was set.                                                        *)
C12_OtherStatusKeepsStamp ==
  [][\A p \in CallIds :
       (Returns(p, "updateIncident") /\ calls[p].input.status # "resolved")
         => incidents'[calls[p].input.incident_id].resolved_at
              = incidents[calls[p].input.incident_id].resolved_at]_vars

C12_Witness ==
  \E p \in CallIds :
    /\ Returned(p, "updateIncident")
    /\ calls[p].input.status = "monitoring"
    /\ incidents[calls[p].input.incident_id].status = "monitoring"
    /\ incidents[calls[p].input.incident_id].resolved_at = 0
    /\ incidents[calls[p].input.incident_id].updated_at = 1

(* C13: a createIncidentUpdate whose status differs from the incident's   *)
(* status and is not resolved returns with the incident at that status and *)
(* resolved_at null, also when the incident was resolved.                  *)
C13_LeavingResolvedClearsStamp ==
  [][\A p \in CallIds :
       (/\ Returns(p, "createIncidentUpdate")
        /\ calls[p].input.status # calls[p].held.currentIncident.status
        /\ calls[p].input.status # "resolved")
         => /\ incidents'[calls[p].input.incident_id].status
                 = calls[p].input.status
            /\ incidents'[calls[p].input.incident_id].resolved_at = NULL]_vars

C13_Witness ==
  \E p \in CallIds :
    /\ Returned(p, "createIncidentUpdate")
    /\ calls[p].input.status = "monitoring"
    /\ Len(incidentUpdates) = 2
    /\ incidentUpdates[1].incident_id = calls[p].input.incident_id
    /\ incidentUpdates[1].status = "resolved"
    /\ incidents[calls[p].input.incident_id].status = "monitoring"
    /\ incidents[calls[p].input.incident_id].resolved_at = NULL
    /\ incidents[calls[p].input.incident_id].updated_at = 1

(* This step is the insert of the update record of the call in slot p.    *)
InsertsUpdate(p) ==
  /\ calls[p].op = "createIncidentUpdate" /\ calls[p].pc = "result"
  /\ calls'[p].pc \in {"resolved_at", "updated_at", "returned"}

(* C14: a createIncidentUpdate on an existing incident appends exactly    *)
(* one update record with the given incident, title, body and status,      *)
(* whether or not the status differs from the incident's, and returns it;  *)
(* every other step leaves the update records as they are, and no step     *)
(* changes or removes an earlier record.                                   *)
C14_UpdatesAppendOnly ==
  [][\A p \in CallIds :
       /\ InsertsUpdate(p)
            => /\ Len(incidentUpdates') = Len(incidentUpdates) + 1
               /\ LET r == incidentUpdates'[Len(incidentUpdates')]
                  IN /\ r.incident_id = calls[p].input.incident_id
                     /\ r.title = calls[p].input.title
                     /\ r.body = calls[p].input.body
                     /\ r.status = calls[p].input.status
       /\ (\A q \in CallIds : ~InsertsUpdate(q))
            => incidentUpdates' = incidentUpdates
       /\ Returns(p, "createIncidentUpdate")
            => /\ calls'[p].out = incidentUpdates'[calls'[p].out.id]
               /\ calls'[p].out.status = calls[p].input.status
               /\ calls'[p].out.id
                    = IF calls[p].pc = "result"
                        THEN Len(incidentUpdates) + 1
                        ELSE calls[p].held.incidentUpdate.id
       /\ Len(incidentUpdates') >= Len(incidentUpdates)
       /\ \A k \in 1..Len(incidentUpdates) :
            incidentUpdates'[k] = incidentUpdates[k]]_vars

C14_Witness ==
  \E p \in CallIds :
    /\ Returned(p, "createIncidentUpdate")
    /\ Len(incidentUpdates) = 2
    /\ incidentUpdates[1].incident_id = incidentUpdates[2].incident_id
    /\ incidentUpdates[1].status = incidentUpdates[2].status
    /\ incidentUpdates[1].title = "t1"
    /\ incidentUpdates[2].title = "t1"
    /\ incidentUpdates[2].body = "b1"
    /\ calls[p].out = incidentUpdates[2]

(* The update records of one incident, oldest first. *)
UpdatesOf(incident_id) ==
  SelectSeq(incidentUpdates, LAMBDA u : u.incident_id = incident_id)

(* C15: when a createIncidentUpdate call returns, with the calls made    *)
(* one after another, the incident's status is the status of the update    *)
(* record appended last for it.                                            *)
C15_StatusIsLatestUpdate ==
  [][\A p \in CallIds :
       (Serial /\ Returns(p, "createIncidentUpdate"))
         => LET id == calls[p].input.incident_id
                ups == SelectSeq(incidentUpdates',
                                 LAMBDA u : u.incident_id = id)
            IN /\ ups # << >>
               /\ incidents'[id].status = ups[Len(ups)].status]_vars

C15_Witness ==
  \E p \in CallIds :
    /\ Serial
    /\ Returned(p, "createIncidentUpdate")
    /\ Len(UpdatesOf(calls[p].input.incident_id)) = 2
    /\ UpdatesOf(calls[p].input.incident_id)[1].status = "resolved"
    /\ UpdatesOf(calls[p].input.incident_id)[2].status = "monitoring"
    /\ incidents[calls[p].input.incident_id].status = "monitoring"

(* C23: no step of a createIncidentUpdate whose status is the incident's  *)
(* status changes the incident row: status, resolved_at and updated_at     *)
(* keep their values, and the update record is added.                      *)
C23_SameStatusKeepsIncident ==
  [][\A p \in CallIds :
       (/\ StepOf(p, "createIncidentUpdate")
        /\ calls[p].input.status = calls[p].held.currentIncident.status)
         => /\ incidents' = incidents
            /\ InsertsUpdate(p)
                 => /\ Len(incidentUpdates') = Len(incidentUpdates) + 1
                    /\ calls'[p].pc = "returned"]_vars

C23_Witness ==
  \E p \in CallIds :
    /\ Returned(p, "createIncidentUpdate")
    /\ calls[p].input.status = "resolved"
    /\ now = 1
    /\ Len(incidentUpdates) = 2
    /\ incidentUpdates[1].incident_id = calls[p].input.incident_id
    /\ incidentUpdates[1].status = "resolved"
    /\ incidentUpdates[2] = calls[p].out
    /\ incidents[calls[p].input.incident_id].status = "resolved"
    /\ incidents[calls[p].input.incident_id].resolved_at = 0
    /\ incidents[calls[p].input.incident_id].updated_at = 0

(* C28: an incident has a resolved_at exactly when its status is          *)
(* resolved.                                                               *)
C28_StampedIffResolved ==
  \A i \in 1..Len(incidents) :
    incidents[i].resolved_at # NULL <=> incidents[i].status = "resolved"

----------------------------------------------------------------------------
(* What the operations after an incident's creation leave alone (SpecOps) *)

(* C19: no step of updateIncident or createIncidentUpdate, also of a call *)
(* that moves the incident to resolved, changes a component; a step that   *)
(* changes the status of a component is a step of updateComponentStatus or *)
(* of createIncident.                                                      *)
C19_ResolutionKeepsComponents ==
  [][/\ \A p \in CallIds :
          (StepOf(p, "updateIncident") \/ StepOf(p, "createIncidentUpdate"))
            => components' = components
     /\ (\E c \in 1..Len(components) :
           components'[c].status # components[c].status)
          => \E p \in CallIds : \/ StepOf(p, "updateComponentStatus")
                               \/ StepOf(p, "createIncident")]_vars

C19_Witness ==
  \E p \in CallIds :
    /\ Returned(p, "updateIncident")
    /\ calls[p].input.incident_id = 1
    /\ incidents[1].status = "resolved"
    /\ Len(incidentUpdates) = 1
    /\ incidentUpdates[1].incident_id = 1
    /\ incidentUpdates[1].status = "resolved"
    /\ LinkedIds(incidentComponents, 1) = {1, 2}
    /\ components[1].status = "major_outage"
    /\ components[2].status = "major_outage"

(* C20: the links of an incident are the ones createIncident wrote, one   *)
(* per id of component_ids in that order; no step changes or removes a     *)
(* link, and a step that adds links is the step of a createIncident call   *)
(* that adds them to the incident it has just created.                     *)
C20_LinksFixedAtCreation ==
  [][/\ Len(incidentComponents') >= Len(incidentComponents)
     /\ \A k \in 1..Len(incidentComponents) :
          incidentComponents'[k] = incidentComponents[k]
     /\ \A k \in (Len(incidentComponents) + 1)..Len(incidentComponents') :
          \E p \in CallIds :
            /\ calls[p].op = "createIncident"
            /\ calls[p].pc = "componentLinks"
            /\ calls'[p] # calls[p]
            /\ Serial => calls[p].held.incident.id = Len(incidents)
            /\ incidentComponents'[k].incident_id
                 = calls[p].held.incident.id
     /\ \A p \in CallIds :
          Returns(p, "createIncident")
            => LinkList(incidentComponents', calls'[p].out.id)
                 = calls[p].input.component_ids]_vars

C20_Witness ==
  \E p \in CallIds :
    /\ Returned(p, "updateComponentStatus")
    /\ Len(incidents) = 2
    /\ incidents[1].status = "resolved"
    /\ Len(incidentUpdates) > 0
    /\ Len(LinksOf(incidentComponents, 1)) = 2
    /\ LinkedIds(incidentComponents, 1) = {1, 2}
    /\ LinkedIds(incidentComponents, 2) = {1}

----------------------------------------------------------------------------
(* createIncident calls in progress at the same time (SpecRace) *)

(* The call in slot p is a createIncident that has returned after its     *)
(* propagation loop.                                                       *)
Propagated(p) ==
  Returned(p, "createIncident") /\ calls[p].input.impact # "none"

(* C16: when two createIncident calls with impacts other than none have   *)
(* both returned, a component listed by both has the target status of the  *)
(* incident whose write to it was applied last; that incident is one of    *)
(* the two and the status one of their targets.                            *)
C16_LastWriterWins ==
  \A p \in CallIds : \A q \in CallIds \ {p} :
    (Propagated(p) /\ Propagated(q))
      => \A c \in Range(calls[p].input.component_ids)
                  \cap Range(calls[q].input.component_ids) :
           /\ lastWriter[c] \in {calls[p].out.id, calls[q].out.id}
           /\ components[c].status
                = TargetOf(incidents[lastWriter[c]].impact)
           /\ components[c].status
                \in {TargetOf(calls[p].input.impact),
                     TargetOf(calls[q].input.impact)}

(* The call that inserted its incident first wrote the shared component   *)
(* last, after the other call's write.                                     *)
C16_Witness ==
  /\ Propagated(1) /\ Propagated(2)
  /\ calls[1].input.impact = "minor" /\ calls[2].input.impact = "critical"
  /\ calls[1].input.component_ids = <<1, 2>>
  /\ calls[2].input.component_ids = <<2, 1>>
  /\ calls[1].out.id = 1 /\ calls[2].out.id = 2
  /\ lastWriter[1] = 1 /\ lastWriter[2] = 1
  /\ components[1].status = "degraded_performance"
  /\ components[2].status = "degraded_performance"

(* This step is a status write of the propagation loop of the call in     *)
(* slot p that the store rejects.                                          *)
WriteFails(p) ==
  /\ calls[p].op = "createIncident" /\ calls[p].pc = "updateComponent"
  /\ calls'[p].pc = "threw"

(* C17: the step at which a status write of the propagation loop fails    *)
(* reports the error and changes no table: the incident row and one link   *)
(* per listed id are in place, the writes of the earlier turns that no     *)
(* other call has overwritten still show the target status, and the        *)
(* component of the failing turn and the ones after it have not been       *)
(* written by the call, which takes no further step: a status write for an *)
(* incident is a step of the call that holds it.                           *)
C17_FailedWriteRollsNothingBack ==
  [][/\ \A p \in CallIds :
          WriteFails(p)
            => LET input == calls[p].input
                   incident == calls[p].held.incident
               IN /\ calls'[p].out = "Failed query"
                  /\ incidents' = incidents
                  /\ incidentComponents' = incidentComponents
                  /\ components' = components
                  /\ incidents'[incident.id] = incident
                  /\ incident.impact = input.impact
                  /\ incident.status_page_id = input.status_page_id
                  /\ LinkList(incidentComponents', incident.id)
                       = input.component_ids
                  /\ calls[p].k <= Len(input.component_ids)
                  /\ \A j \in 1..(calls[p].k - 1) :
                       lastWriter'[input.component_ids[j]] = incident.id
                         => components'[input.component_ids[j]].status
                              = TargetOf(input.impact)
                  /\ \A j \in calls[p].k..Len(input.component_ids) :
                       input.component_ids[j]
                           \notin {input.component_ids[i] :
                                     i \in 1..(calls[p].k - 1)}
                         => lastWriter'[input.component_ids[j]] # incident.id
     /\ \A c \in 1..MaxComponents :
          lastWriter'[c] # lastWriter[c]
            => \E p \in CallIds :
                 /\ WritesStatus(p)
                 /\ calls[p].held.incident.id = lastWriter'[c]
                 /\ calls[p].input.component_ids[calls[p].k] = c]_vars

(* The second of two writes has failed: the first stays, the second       *)
(* component is untouched, and the incident and both links are there.      *)
C17_Witness ==
  /\ calls[1].op = "createIncident" /\ calls[1].pc = "threw"
  /\ calls[1].out = "Failed query"
  /\ calls[2].pc = "idle"
  /\ calls[1].input.component_ids = <<1, 2>>
  /\ calls[1].input.impact = "critical"
  /\ Len(incidents) = 1
  /\ LinkedIds(incidentComponents, 1) = {1, 2}
  /\ lastWriter[1] = 1 /\ lastWriter[2] = 0
  /\ components[1].status = "major_outage"
  /\ components[2].status = "operational"

(* Two returned calls with different impacts other than none and the same *)
(* list of two or more component ids                                       *)
SameListPair(p, q) ==
  /\ Propagated(p) /\ Propagated(q)
  /\ calls[p].input.impact # calls[q].input.impact
  /\ calls[p].input.component_ids = calls[q].input.component_ids
  /\ Cardinality(Range(calls[p].input.component_ids)) >= 2

(* C30 as stated: when two createIncident calls with different impacts    *)
(* other than none and the same list of two or more component ids have     *)
(* both returned, all those components hold one status, the target of one  *)
(* of the two calls.                                                       *)
C30_PropagationNotSplit ==
  \A p \in CallIds : \A q \in CallIds \ {p} :
    SameListPair(p, q)
      => \E r \in {p, q} :
           \A c \in Range(calls[p].input.component_ids) :
             components[c].status = TargetOf(calls[r].input.impact)

(* C30: when two createIncident calls with different impacts other than   *)
(* none and the same list of two or more component ids have both returned, *)
(* each of those components holds the target of the one of the two         *)
(* incidents whose write to that component was applied last; the           *)
(* components need not hold the same status.                               *)
C30_EachComponentOfItsLastWriter ==
  \A p \in CallIds : \A q \in CallIds \ {p} :
    SameListPair(p, q)
      => \A c \in Range(calls[p].input.component_ids) :
           \E r \in {p, q} :
             /\ lastWriter[c] = calls[r].out.id
             /\ components[c].status = TargetOf(calls[r].input.impact)

(* The two calls list the same two components and each wrote one of them  *)
(* last: the components hold different statuses.                           *)
C30_Witness ==
  /\ SameListPair(1, 2)
  /\ calls[1].input.impact = "minor" /\ calls[2].input.impact = "critical"
  /\ calls[1].input.component_ids = <<1, 2>>
  /\ lastWriter[1] = calls[1].out.id /\ lastWriter[2] = calls[2].out.id
  /\ components[1].status = "degraded_performance"
  /\ components[2].status = "major_outage"

----------------------------------------------------------------------------
(* The public page while component statuses change (SpecView) *)

(* The severity cascade over a set of statuses. *)
Cascade(statuses) ==
  IF "major_outage" \in statuses THEN "major_outage"
  ELSE IF "partial_outage" \in statuses THEN "partial_outage"
  ELSE IF "degraded_performance" \in statuses THEN "degraded_performance"
  ELSE IF "under_maintenance" \in statuses THEN "under_maintenance"
  ELSE "operational"

(* The visible component rows of a page, read off the table. *)
VisibleRows(status_page_id) ==
  SelectSeq(components,
            LAMBDA c : c.status_page_id = status_page_id /\ c.is_visible)

(* This step is the read of the components by the call in slot p. *)
ReadsComponents(p) ==
  /\ calls[p].op = "getPublicStatusPage" /\ calls[p].pc = "components"
  /\ calls'[p].pc = "activeIncidents"

(* C21: every getPublicStatusPage call returns the cascade over the       *)
(* statuses the visible components of the page have when the call reads    *)
(* them, whatever an earlier call returned, and no step of the call writes *)
(* a table: with operational and degraded_performance left after the       *)
(* major_outage component has changed, the call gives                      *)
(* degraded_performance.                                                   *)
C21_OverallStatusIsCurrent ==
  [][\A p \in CallIds :
       /\ ReadsComponents(p)
            => StatusMap(calls'[p].held.components)
                 = StatusMap(VisibleRows(calls[p].held.statusPage.id))
       /\ Returns(p, "getPublicStatusPage")
            => calls'[p].out.overall_status
                 = Cascade(Range(StatusMap(calls[p].held.components)))
       /\ (Running(p, "getPublicStatusPage") /\ calls'[p].pc # calls[p].pc)
            => /\ statusPages' = statusPages
               /\ components' = components
               /\ metrics' = metrics]_vars

(* The third component of the page went to major_outage and back to       *)
(* operational; the call after that gives degraded_performance.            *)
C21_Witness ==
  \E p \in CallIds :
    /\ PageReturned(p)
    /\ calls[p].out.overall_status = "degraded_performance"
    /\ Len(calls[p].out.components) = 3
    /\ ShownStatuses(p) = {"operational", "degraded_performance"}
    /\ StatusMap(calls[p].out.components) = StatusMap(VisibleRows(1))
    /\ Len(metrics) = 2
    /\ metrics[1].component_id = 3 /\ metrics[1].status = "major_outage"
    /\ metrics[2].component_id = 3 /\ metrics[2].status = "operational"

(* C22: a step that leaves the visible components of a page as they are   *)
(* (it changes or adds only invisible components or components of other    *)
(* pages) leaves the component list and the overall status computed for    *)
(* that page as they are, and a returned page carries exactly the visible  *)
(* components of its page, as the call read them, and the overall status   *)
(* computed from them.                                                     *)
C22_OnlyVisibleOfPageCount ==
  [][/\ \A pid \in {1, 2} :
          VisibleRows(pid)' = VisibleRows(pid)
            => /\ fetchComponents(pid)' = fetchComponents(pid)
               /\ overallStatus(fetchComponents(pid))'
                    = overallStatus(fetchComponents(pid))
     /\ \A p \in CallIds :
          /\ ReadsComponents(p)
               => calls'[p].held.components
                    = VisibleRows(calls[p].held.statusPage.id)
          /\ Returns(p, "getPublicStatusPage")
               => /\ calls'[p].out.components = calls[p].held.components
                  /\ calls'[p].out.overall_status
                       = overallStatus(calls'[p].out.components)]_vars

(* The page of acme is returned as operational while an invisible         *)
(* component of it and a visible component of the other page are in        *)
(* major_outage.                                                           *)
C22_Witness ==
  \E p \in CallIds :
    /\ PageReturned(p)
    /\ calls[p].out.status_page.id = 1
    /\ calls[p].out.overall_status = "operational"
    /\ Len(calls[p].out.components) = 1
    /\ calls[p].out.components = VisibleRows(1)
    /\ \E i \in 1..Len(components) :
         /\ components[i].status_page_id = 1 /\ ~components[i].is_visible
         /\ components[i].status = "major_outage"
    /\ \E i \in 1..Len(components) :
         /\ components[i].status_page_id = 2 /\ components[i].is_visible
         /\ components[i].status = "major_outage"

----------------------------------------------------------------------------
(* The direct write of a component's status (SpecStatus) *)

(* This step is the update of the component by the call in slot p. *)
UpdatesComponent(p) ==
  /\ calls[p].op = "updateComponentStatus"
  /\ calls[p].pc = "updatedComponents"
  /\ calls'[p].pc = "timestamp"

(* This step is the insert of the metric row by the call in slot p. *)
InsertsMetric(p) ==
  /\ calls[p].op = "updateComponentStatus" /\ calls[p].pc = "insertMetric"
  /\ calls'[p].pc = "returned"

(* C24 as stated: an updateComponentStatus call sets the component to    *)
(* the requested status and leaves every other component as it was, then   *)
(* appends one metric row with that component and status after the rows    *)
(* already there and returns the component with the requested status; the  *)
(* rows are in call order, the component being at the status of the call   *)
(* when its row is appended, and no step of the call writes another metric *)
(* row.                                                                    *)
C24_StatusSetAndMetricAppended ==
  [][\A p \in CallIds :
       LET id == calls[p].input.component_id
       IN /\ UpdatesComponent(p)
               => /\ Len(components') = Len(components)
                  /\ components'[id].status = calls[p].input.status
                  /\ \A i \in 1..Len(components) :
                       i # id => components'[i] = components[i]
                  /\ metrics' = metrics
          /\ InsertsMetric(p)
               => /\ components' = components
                  /\ components'[id].status = calls[p].input.status
                  /\ calls'[p].out.id = id
                  /\ calls'[p].out.status = calls[p].input.status
                  /\ Len(metrics') = Len(metrics) + 1
                  /\ \A k \in 1..Len(metrics) : metrics'[k] = metrics[k]
                  /\ metrics'[Len(metrics')].component_id = id
                  /\ metrics'[Len(metrics')].status = calls[p].input.status
          /\ (/\ StepOf(p, "updateComponentStatus")
              /\ ~InsertsMetric(p)) => metrics' = metrics]_vars

(* C24, amended: an updateComponentStatus call sets the component to the  *)
(* requested status and leaves every other component as it was, then       *)
(* appends one metric row with that component and status after the rows    *)
(* already there and returns the component as its update left it, with the *)
(* requested status; no step of the call writes another metric row.  With  *)
(* the calls made one after another the component is at the status of the  *)
(* call when its row is appended, so the rows are in call order; calls in  *)
(* progress at the same time append their rows in the order of their       *)
(* inserts, whatever the order of their updates.                           *)
C24_StatusSetAndMetricAppendedPerCall ==
  [][\A p \in CallIds :
       LET id == calls[p].input.component_id
       IN /\ UpdatesComponent(p)
               => /\ Len(components') = Len(components)
                  /\ components'[id].status = calls[p].input.status
                  /\ \A i \in 1..Len(components) :
                       i # id => components'[i] = components[i]
                  /\ metrics' = metrics
                  /\ calls'[p].held.updatedComponent = components'[id]
          /\ InsertsMetric(p)
               => /\ components' = components
                  /\ Serial => components'[id].status = calls[p].input.status
                  /\ calls'[p].out = calls[p].held.updatedComponent
                  /\ calls'[p].out.id = id
                  /\ calls'[p].out.status = calls[p].input.status
                  /\ Len(metrics') = Len(metrics) + 1
                  /\ \A k \in 1..Len(metrics) : metrics'[k] = metrics[k]
                  /\ metrics'[Len(metrics')].component_id = id
                  /\ metrics'[Len(metrics')].status = calls[p].input.status
          /\ (/\ StepOf(p, "updateComponentStatus")
              /\ ~InsertsMetric(p)) => metrics' = metrics]_vars

(* Two calls on component 1 were in progress at the same time: the call   *)
(* for operational updated first and inserted last, so the rows show       *)
(* major_outage before operational and the component is at major_outage    *)
(* while the call returns it as operational; component 2 kept its status.  *)
C24_Witness ==
  \E p \in CallIds :
    /\ Returned(p, "updateComponentStatus")
    /\ calls[p].input = [component_id |-> 1, status |-> "operational"]
    /\ calls[p].out.status = "operational"
    /\ Len(components) = 2
    /\ components[1].status = "major_outage"
    /\ components[2].status = "partial_outage"
    /\ Len(metrics) = 2
    /\ metrics[1].component_id = 1 /\ metrics[1].status = "major_outage"
    /\ metrics[2].component_id = 1 /\ metrics[2].status = "operational"
    /\ metrics[2].timestamp = 1

----------------------------------------------------------------------------
(* Subscriptions (SpecSubscribe) and maintenance windows (SpecMaintain) *)

(* The table has a subscription of this email on this status page. *)
Subscribed(rows, email, status_page_id) ==
  \E k \in 1..Len(rows) :
    rows[k].email = email /\ rows[k].status_page_id = status_page_id

(* C25: no two subscriptions share email and status page; a               *)
(* createSubscription call that finds the pair subscribed fails and        *)
(* inserts nothing, and the insert of a call adds one subscription of its  *)
(* pair, whatever other pages the email or other emails the page has.      *)
C25_OneSubscriptionPerPair ==
  [][/\ \A i, j \in 1..Len(subscriptions') :
          (/\ subscriptions'[i].email = subscriptions'[j].email
           /\ subscriptions'[i].status_page_id
                = subscriptions'[j].status_page_id) => i = j
     /\ \A p \in CallIds :
          /\ (/\ calls[p].op = "createSubscription"
              /\ calls[p].pc = "existingSubscription"
              /\ calls'[p].pc # "existingSubscription")
               => /\ subscriptions' = subscriptions
                  /\ calls'[p].pc = "threw"
                       <=> Subscribed(subscriptions, calls[p].input.email,
                                      calls[p].input.status_page_id)
          /\ (/\ calls[p].op = "createSubscription"
              /\ calls[p].pc = "result"
              /\ calls'[p].pc = "returned")
               => /\ Len(subscriptions') = Len(subscriptions) + 1
                  /\ calls'[p].out = subscriptions'[Len(subscriptions')]
                  /\ calls'[p].out.email = calls[p].input.email
                  /\ calls'[p].out.status_page_id
                       = calls[p].input.status_page_id]_vars

(* C26: every stored maintenance window ends after it starts and has      *)
(* status scheduled; a createMaintenanceWindow call whose scheduled_end is *)
(* not after its scheduled_start fails on that ground at once, whether or  *)
(* not the status page exists, and writes nothing.                         *)
C26_WindowsEndAfterStart ==
  [][/\ \A k \in 1..Len(maintenanceWindows') :
          /\ maintenanceWindows'[k].scheduled_end
               > maintenanceWindows'[k].scheduled_start
          /\ maintenanceWindows'[k].status = "scheduled"
     /\ \A p \in CallIds :
          (/\ Free(p)
           /\ calls'[p] # calls[p]
           /\ calls'[p].op = "createMaintenanceWindow"
           /\ calls'[p].input.scheduled_end
                <= calls'[p].input.scheduled_start)
            => /\ calls'[p].pc = "threw"
               /\ calls'[p].out
                    = "Scheduled end time must be after scheduled start time"
               /\ maintenanceWindows' = maintenanceWindows
               /\ maintenanceComponents' = maintenanceComponents]_vars

(* A call with equal start and end on a page that does not exist has      *)
(* failed on the schedule, after a window with its links was stored.       *)
C26_Witness ==
  \E p \in CallIds :
    /\ calls[p].op = "createMaintenanceWindow" /\ calls[p].pc = "threw"
    /\ calls[p].input = [status_page_id |-> 3, scheduled_start |-> 1,
                         scheduled_end |-> 1, component_ids |-> << >>]
    /\ calls[p].out = "Scheduled end time must be after scheduled start time"
    /\ Len(maintenanceWindows) = 1
    /\ maintenanceWindows[1].scheduled_start = 0
    /\ maintenanceWindows[1].scheduled_end = 1
    /\ Len(maintenanceComponents) = 2

----------------------------------------------------------------------------
(* createIncidentUpdate calls in progress at the same time (SpecUpdateRace) *)

(* C29: when two createIncidentUpdate calls on one incident have both     *)
(* returned, the incident's status is the status of the update record      *)
(* inserted last for it, and its resolved_at is set exactly when that      *)
(* status is resolved.                                                     *)
C29_StatusIsLastInserted ==
  \A p \in CallIds : \A q \in CallIds \ {p} :
    (/\ Returned(p, "createIncidentUpdate")
     /\ Returned(q, "createIncidentUpdate")
     /\ calls[p].input.incident_id = calls[q].input.incident_id)
      => LET id == calls[p].input.incident_id
             ups == UpdatesOf(id)
         IN /\ incidents[id].status = ups[Len(ups)].status
            /\ (incidents[id].resolved_at # NULL)
                 <=> (ups[Len(ups)].status = "resolved")

====
